---- MODULE Spec2Model ----
(***************************************************************************)
(* A model of the per-layer transaction state of SurfaceFlinger's          *)
(* LayerBase (services/surfaceflinger/LayerBase.cpp): the pending          *)
(* (mCurrentState) and committed (mDrawingState) snapshots, the nine state *)
(* mutators, the transaction-flag word, doTransaction/commitTransaction,   *)
(* and the geometry derived from the committed snapshot.                   *)
(***************************************************************************)
EXTENDS Integers, Sequences, FiniteSets, TLC

VARIABLES
    mCurrentState,        \* LayerBase::mCurrentState, the pending snapshot
    mDrawingState,        \* LayerBase::mDrawingState, the committed snapshot
    mTransactionFlags,    \* LayerBase::mTransactionFlags (atomic word)
    contentDirty,         \* LayerBase::contentDirty
    mNeedsFiltering,      \* LayerBase::mNeedsFiltering
    mPremultipliedAlpha,  \* LayerBase::mPremultipliedAlpha
    hwcLayer,             \* the HWCLayerInterface a setGeometry call has just filled
    cropResult,           \* the Rect last returned by computeCrop, with its inputs
    lastCall,             \* the call that produced this state: op, arg, ret, seq0
    pc,                   \* per-thread position in the interleaved specification
    pendingSignals,       \* signals OR-ed into the flag word and not yet fetched
    observed,             \* how often the newest signal was returned by a fetch
    mesh,                 \* the LayerMesh a computeGeometry call has just filled
    mQueuedFrames,        \* Layer::mQueuedFrames (atomic counter)
    mActiveBuffer,        \* Layer::mActiveBuffer: the frame adopted, 0 for none
    frames,               \* onFrameAvailable calls made, decrements latchBuffer made
    mHasSurface,          \* LayerBaseClient::mHasSurface, per layer
    mClientSurfaceBinder, \* LayerBaseClient::mClientSurfaceBinder, per layer (0: none)
    surfaces,             \* surfaces created per layer, and whether the process aborted
    txn,                  \* the flags local of a doTransaction in progress
    forcePending,         \* a forceVisibilityTransaction no doTransaction has seen yet
    requests              \* requestTransaction calls since the last consuming get

vars == <<mCurrentState, mDrawingState, mTransactionFlags, contentDirty,
          mNeedsFiltering, mPremultipliedAlpha, hwcLayer, cropResult,
          lastCall, pc, pendingSignals, observed, mesh,
          mQueuedFrames, mActiveBuffer, frames,
          mHasSurface, mClientSurfaceBinder, surfaces, txn, forcePending, requests>>

\* the variables of a doTransaction in progress
forceVars == <<txn, forcePending>>

\* the variables that the calls on the two snapshots leave alone
restVars == <<mesh, mQueuedFrames, mActiveBuffer, frames,
              mHasSurface, mClientSurfaceBinder, surfaces, txn, forcePending, requests>>

----------------------------------------------------------------------------
(* Bounds of the model *)

MaxSeq == 2          \* mutations explored per run (cap of State::sequence)

----------------------------------------------------------------------------
(* Program constants *)

eTransactionNeeded == 1          \* SurfaceFlinger::eTransactionNeeded
eDontUpdateGeometryState == 1    \* LayerBase::eDontUpdateGeometryState
eVisibleRegion == 2              \* LayerBase::eVisibleRegion
eLayerHidden == 1                \* layer_state_t::eLayerHidden
eHidden == 4                     \* ISurfaceComposerClient::eHidden
eNonPremultiplied == 256         \* ISurfaceComposerClient::eNonPremultiplied
OpaqueAlpha == 255               \* 0xFF

\* Transform::type_mask and Transform::orientation_flags
TRANSLATE == 1
ROTATE == 2
SCALE == 4
UNKNOWN == 8
FLIP_H == 1
FLIP_V == 2
ROT_90 == 4
ROT_INVALID == 128

----------------------------------------------------------------------------
(* Bitwise operators of C on non-negative words *)

RECURSIVE BitAnd(_, _)
BitAnd(a, b) ==
    IF a = 0 \/ b = 0 THEN 0
    ELSE (a % 2) * (b % 2) + 2 * BitAnd(a \div 2, b \div 2)

RECURSIVE BitOr(_, _)
BitOr(a, b) ==
    IF a = 0 THEN b
    ELSE IF b = 0 THEN a
    ELSE (IF a % 2 = 1 \/ b % 2 = 1 THEN 1 ELSE 0) + 2 * BitOr(a \div 2, b \div 2)

\* a & ~m
BitClear(a, m) == a - BitAnd(a, m)

\* a ^ m
BitXor(a, m) == BitOr(a, m) - BitAnd(a, m)

Min(a, b) == IF a <= b THEN a ELSE b
Max(a, b) == IF a >= b THEN a ELSE b

----------------------------------------------------------------------------
(* Rect (ui/Rect.h) *)

Rect(l, t, r, b) == [left |-> l, top |-> t, right |-> r, bottom |-> b]

\* Rect(w, h)
RectWH(w, h) == Rect(0, 0, w, h)

\* Rect::makeInvalid
InvalidRect == Rect(0, 0, -1, -1)

RectWidth(r) == r.right - r.left
RectHeight(r) == r.bottom - r.top

\* Rect::isEmpty
RectIsEmpty(r) == RectWidth(r) <= 0 \/ RectHeight(r) <= 0

\* Rect::intersect(with, &result)
RectIntersect(r, with) ==
    Rect(Max(r.left, with.left), Max(r.top, with.top),
         Min(r.right, with.right), Min(r.bottom, with.bottom))

----------------------------------------------------------------------------
(* Transform (Transform.h): x' = (M00*x + M10*y + tx)/den,                  *)
(*                          y' = (M01*x + M11*y + ty)/den.                  *)
(* A layer's transform has den = 1; den > 1 only in an inverse.             *)

Transform(a, b, c, d, x, y) ==
    [M00 |-> a, M10 |-> b, M01 |-> c, M11 |-> d, tx |-> x, ty |-> y, den |-> 1]

IdentityTransform == Transform(1, 0, 0, 1, 0, 0)

\* Transform::set(tx, ty)
TransformSetPosition(t, x, y) == [t EXCEPT !.tx = x, !.ty = y]

\* Transform::set(a, b, c, d)
TransformSetMatrix(t, a, b, c, d) ==
    [t EXCEPT !.M00 = a, !.M10 = b, !.M01 = c, !.M11 = d]

AbsIsOne(f) == f = 1 \/ f = -1

\* the orientation flags computed by Transform::type()
TransformFlags(t) ==
    IF t.M10 = 0 /\ t.M01 = 0
    THEN (IF t.M00 < 0 THEN FLIP_H ELSE 0) + (IF t.M11 < 0 THEN FLIP_V ELSE 0)
    ELSE IF t.M00 = 0 /\ t.M11 = 0
    THEN ROT_90 + (IF t.M10 > 0 THEN FLIP_V ELSE 0)
                + (IF t.M01 < 0 THEN FLIP_H ELSE 0)
    ELSE ROT_INVALID

\* the "scale" local of Transform::type()
TransformScales(t) ==
    IF t.M10 = 0 /\ t.M01 = 0 THEN ~AbsIsOne(t.M00) \/ ~AbsIsOne(t.M11)
    ELSE IF t.M00 = 0 /\ t.M11 = 0 THEN ~AbsIsOne(t.M10) \/ ~AbsIsOne(t.M01)
    ELSE FALSE

\* Transform::type(): (flags << 8) | type bits
TransformType(t) ==
    LET flags == TransformFlags(t)
        rot == BitAnd(flags, ROT_90) # 0
                 \/ BitAnd(flags, FLIP_H + FLIP_V) = FLIP_H + FLIP_V
        flipped == (BitAnd(flags, FLIP_H) # 0) # (BitAnd(flags, FLIP_V) # 0)
        bits == IF BitAnd(flags, ROT_INVALID) # 0 THEN UNKNOWN
                ELSE (IF rot THEN ROTATE ELSE 0)
                     + (IF flipped \/ TransformScales(t) THEN SCALE ELSE 0)
    IN  flags * 256 + bits + (IF t.tx # 0 \/ t.ty # 0 THEN TRANSLATE ELSE 0)

\* Transform::getType
GetType(t) == TransformType(t) % 256

\* Transform::getOrientation
GetOrientation(t) == (TransformType(t) \div 256) % 256

\* Transform::preserveRects
PreserveRects(t) == BitAnd(GetOrientation(t), ROT_INVALID) = 0

\* floorf(n/den + 0.5f)
RoundHalfUp(n, den) == (2 * n + den) \div (2 * den)

\* Transform::transform(const Rect&): the rounded bounding box of the corners
TransformRect(t, r) ==
    LET X(x, y) == t.M00 * x + t.M10 * y + t.tx
        Y(x, y) == t.M01 * x + t.M11 * y + t.ty
        xs == {X(r.left, r.top), X(r.right, r.top),
               X(r.left, r.bottom), X(r.right, r.bottom)}
        ys == {Y(r.left, r.top), Y(r.right, r.top),
               Y(r.left, r.bottom), Y(r.right, r.bottom)}
        lo(S) == CHOOSE v \in S : \A u \in S : v <= u
        hi(S) == CHOOSE v \in S : \A u \in S : v >= u
    IN  Rect(RoundHalfUp(lo(xs), t.den), RoundHalfUp(lo(ys), t.den),
             RoundHalfUp(hi(xs), t.den), RoundHalfUp(hi(ys), t.den))

\* Transform::inverse(), for a transform with den = 1 and a non-zero determinant
TransformInverse(t) ==
    LET det == t.M00 * t.M11 - t.M10 * t.M01
        s == IF det < 0 THEN -1 ELSE 1
        a == s * t.M11
        c == -s * t.M01
        b == -s * t.M10
        d == s * t.M00
    IN  [M00 |-> a, M10 |-> b, M01 |-> c, M11 |-> d,
         tx |-> a * (-t.tx) + b * (-t.ty),
         ty |-> c * (-t.tx) + d * (-t.ty),
         den |-> s * det]

\* Transform::operator*: lhs * rhs applies rhs first (both with den = 1)
TransformCompose(lhs, rhs) ==
    Transform(lhs.M00 * rhs.M00 + lhs.M10 * rhs.M01,
              lhs.M00 * rhs.M10 + lhs.M10 * rhs.M11,
              lhs.M01 * rhs.M00 + lhs.M11 * rhs.M01,
              lhs.M01 * rhs.M10 + lhs.M11 * rhs.M11,
              lhs.M00 * rhs.tx + lhs.M10 * rhs.ty + lhs.tx,
              lhs.M01 * rhs.tx + lhs.M11 * rhs.ty + lhs.ty)

\* Transform::transform(vec2&, x, y), for a transform with den = 1
TransformPoint(t, x, y) ==
    <<t.M00 * x + t.M10 * y + t.tx, t.M01 * x + t.M11 * y + t.ty>>

----------------------------------------------------------------------------
(* Argument domains.  A call's argument is recorded in lastCall.arg as a    *)
(* tuple of integers.                                                       *)

Sizes == {<<1, 1>>, <<2, 1>>}             \* (w, h) of initStates and setSize
Positions == {<<0, 0>>, <<1, 2>>}         \* (x, y) of setPosition
Layers == {0, 1}                         \* z of setLayer, id of setLayerStack
AlphaVals == {0, 128, OpaqueAlpha}
\* (flags, mask) of setFlags: set or clear eLayerHidden under the mask
FlagArgs == {<<0, 1>>, <<3, 1>>}
\* matrix22_t {dsdx, dsdy, dtdx, dtdy}: identity, a 2x scale, a skew
Matrices == {<<1, 0, 0, 1>>, <<2, 0, 0, 2>>, <<1, 1, 0, 1>>}
\* Rect arguments of setCrop as <<left, top, right, bottom>>
Crops == {<<0, 0, -1, -1>>, <<0, 0, 1, 1>>}
\* Region arguments of setTransparentRegionHint, by index
RegionIds == {0, 1}
RegionOf(i) == IF i = 0 THEN {} ELSE {RectWH(1, 1)}
\* flags of doTransaction
TransactionInputs == 0 .. 3

RectOf(q) == Rect(q[1], q[2], q[3], q[4])

----------------------------------------------------------------------------
(* Layer::State and LayerBase::initStates *)

Geometry(w, h, crop) == [w |-> w, h |-> h, crop |-> crop]

\* LayerBase::initStates(w, h, flags): the value of mCurrentState
InitialState(w, h, flags) ==
    [active |-> Geometry(w, h, InvalidRect),
     requested |-> Geometry(w, h, InvalidRect),
     z |-> 0,
     layerStack |-> 0,
     alpha |-> OpaqueAlpha,
     flags |-> IF BitAnd(flags, eHidden) # 0 THEN eLayerHidden ELSE 0,
     transform |-> IdentityTransform,
     transparentRegion |-> {},
     sequence |-> 0]

----------------------------------------------------------------------------
(* The transaction-flag word *)

\* android_atomic_or(flags, &mTransactionFlags): the old and the new word
setTransactionFlags(word, flags) ==
    [old |-> word, new |-> BitOr(word, flags)]

\* getTransactionFlags without the clear
getTransactionFlags_NoClear(word, flags) ==
    [ret |-> BitAnd(word, flags), new |-> word]

\* android_atomic_and(~flags, &mTransactionFlags) & flags
getTransactionFlags(word, flags) ==
    [ret |-> BitAnd(word, flags), new |-> BitClear(word, flags)]

\* requestTransaction reporting true whatever the old word was
requestTransaction_AlwaysTrue(word) ==
    LET r == setTransactionFlags(word, eTransactionNeeded)
    IN  [ret |-> TRUE, new |-> r.new]

\* LayerBase::requestTransaction
requestTransaction(word) ==
    LET r == setTransactionFlags(word, eTransactionNeeded)
    IN  [ret |-> BitAnd(r.old, eTransactionNeeded) = 0, new |-> r.new]

----------------------------------------------------------------------------
(* The nine mutators, as functions of the pending state s: the value        *)
(* returned, the new pending state, and whether requestTransaction ran.     *)

Unchanged(s) == [ret |-> FALSE, state |-> s, request |-> FALSE]
Changed(s) == [ret |-> TRUE, state |-> s, request |-> TRUE]

setPosition(s, x, y) ==
    IF s.transform.tx = x /\ s.transform.ty = y THEN Unchanged(s)
    ELSE Changed([s EXCEPT !.sequence = @ + 1,
                           !.transform = TransformSetPosition(@, x, y)])

\* setLayer without the comparison
setLayer_Uncompared(s, z) ==
    Changed([s EXCEPT !.sequence = @ + 1, !.z = z])

setLayer(s, z) ==
    IF s.z = z THEN Unchanged(s)
    ELSE Changed([s EXCEPT !.sequence = @ + 1, !.z = z])

\* setSize writing the active size as well
setSize_Immediate(s, w, h) ==
    IF s.requested.w = w /\ s.requested.h = h THEN Unchanged(s)
    ELSE Changed([s EXCEPT !.requested.w = w, !.requested.h = h,
                           !.active.w = w, !.active.h = h])

setSize(s, w, h) ==
    IF s.requested.w = w /\ s.requested.h = h THEN Unchanged(s)
    ELSE Changed([s EXCEPT !.requested.w = w, !.requested.h = h])

\* setAlpha without requestTransaction()
setAlpha_Unsignalled(s, alpha) ==
    IF s.alpha = alpha THEN Unchanged(s)
    ELSE [ret |-> TRUE, request |-> FALSE,
          state |-> [s EXCEPT !.sequence = @ + 1, !.alpha = alpha]]

setAlpha(s, alpha) ==
    IF s.alpha = alpha THEN Unchanged(s)
    ELSE Changed([s EXCEPT !.sequence = @ + 1, !.alpha = alpha])

setMatrix(s, m) ==
    Changed([s EXCEPT !.sequence = @ + 1,
                      !.transform = TransformSetMatrix(@, m[1], m[2], m[3], m[4])])

setTransparentRegionHint(s, transparent) ==
    Changed([s EXCEPT !.sequence = @ + 1, !.transparentRegion = transparent])

\* newFlags of setFlags
NewFlags(cur, flags, mask) == BitOr(BitClear(cur, mask), BitAnd(flags, mask))

\* setFlags writing the flags argument without the mask
setFlags_Unmasked(s, flags, mask) ==
    IF s.flags = flags THEN Unchanged(s)
    ELSE Changed([s EXCEPT !.sequence = @ + 1, !.flags = flags])

\* LayerBase::setFlags
setFlags(s, flags, mask) ==
    IF s.flags = NewFlags(s.flags, flags, mask) THEN Unchanged(s)
    ELSE Changed([s EXCEPT !.sequence = @ + 1,
                           !.flags = NewFlags(@, flags, mask)])

\* setCrop advancing sequence before the comparison
setCrop_BumpsFirst(s, crop) ==
    IF s.requested.crop = crop
    THEN Unchanged([s EXCEPT !.sequence = @ + 1])
    ELSE Changed([s EXCEPT !.sequence = @ + 1, !.requested.crop = crop])

setCrop(s, crop) ==
    IF s.requested.crop = crop THEN Unchanged(s)
    ELSE Changed([s EXCEPT !.sequence = @ + 1, !.requested.crop = crop])

setLayerStack(s, layerStack) ==
    IF s.layerStack = layerStack THEN Unchanged(s)
    ELSE Changed([s EXCEPT !.sequence = @ + 1, !.layerStack = layerStack])

----------------------------------------------------------------------------
(* doTransaction *)

\* commitTransaction leaving the committed sequence behind
commitTransaction_StaleSequence(cur) == [cur EXCEPT !.sequence = 0]

\* LayerBase::commitTransaction: the new mDrawingState
commitTransaction(cur) == cur

\* doTransaction marking the content dirty for a change of active as well
doTransaction_DirtyOnResize(cur, front, flags, dirty, filtering) ==
    LET temp == IF BitAnd(flags, eDontUpdateGeometryState) # 0 THEN cur
                ELSE [cur EXCEPT !.active = cur.requested]
        changed == front.active # temp.active \/ temp.sequence # front.sequence
    IN  [ret |-> IF changed THEN BitOr(flags, eVisibleRegion) ELSE flags,
         current |-> temp,
         drawing |-> temp,
         contentDirty |-> IF changed THEN TRUE ELSE dirty,
         mNeedsFiltering |-> filtering]

\* doTransaction committing the active geometry only
doTransaction_GeometryOnly(cur, front, flags, dirty, filtering) ==
    LET temp == IF BitAnd(flags, eDontUpdateGeometryState) # 0 THEN cur
                ELSE [cur EXCEPT !.active = cur.requested]
    IN  [ret |-> flags, current |-> temp,
         drawing |-> [front EXCEPT !.active = temp.active],
         contentDirty |-> dirty, mNeedsFiltering |-> filtering]

\* doTransaction ignoring eDontUpdateGeometryState
doTransaction_AlwaysUpdates(cur, front, flags, dirty, filtering) ==
    LET temp == [cur EXCEPT !.active = cur.requested]
        seqDiffers == temp.sequence # front.sequence
    IN  [ret |-> IF seqDiffers \/ front.active # temp.active
                 THEN BitOr(flags, eVisibleRegion) ELSE flags,
         current |-> temp,
         drawing |-> temp,
         contentDirty |-> IF seqDiffers THEN TRUE ELSE dirty,
         mNeedsFiltering |-> filtering]

\* LayerBase::doTransaction(flags): the flags returned, the two snapshots,
\* contentDirty and mNeedsFiltering after the call
doTransaction(cur, front, flags, dirty, filtering) ==
    LET temp == IF BitAnd(flags, eDontUpdateGeometryState) # 0 THEN cur
                ELSE [cur EXCEPT !.active = cur.requested]
        f1 == IF front.active # temp.active THEN BitOr(flags, eVisibleRegion)
              ELSE flags
        seqDiffers == temp.sequence # front.sequence
    IN  [ret |-> IF seqDiffers THEN BitOr(f1, eVisibleRegion) ELSE f1,
         current |-> temp,
         drawing |-> commitTransaction(temp),
         contentDirty |-> IF seqDiffers THEN TRUE ELSE dirty,
         mNeedsFiltering |->
             IF seqDiffers
             THEN ~PreserveRects(temp.transform) \/ GetType(temp.transform) >= SCALE
             ELSE filtering]

----------------------------------------------------------------------------
(* The frame counter of Layer.  Layer.cpp is not part of the sources at    *)
(* hand: onFrameAvailable and Layer::latchBuffer follow their description. *)

\* Layer::onFrameAvailable: the atomic increment of mQueuedFrames
onFrameAvailable(queued) == queued + 1

\* latchBuffer decrementing whatever the counter holds
latchBuffer_Unchecked(queued) ==
    [found |-> TRUE, mQueuedFrames |-> queued - 1]

\* Layer::latchBuffer: whether it found a queued frame, and the counter after
\* its atomic decrement
latchBuffer(queued) ==
    IF queued > 0
    THEN [found |-> TRUE, mQueuedFrames |-> queued - 1]
    ELSE [found |-> FALSE, mQueuedFrames |-> queued]

\* LayerBase::latchBuffer: the empty Region
LayerBaseLatchBuffer == {}

----------------------------------------------------------------------------
(* LayerBaseClient::getSurface, run under mLock *)

\* getSurface handing out a surface whatever mHasSurface holds
getSurface_Unguarded(has, handle) ==
    [abort |-> FALSE, mHasSurface |-> TRUE, mClientSurfaceBinder |-> handle]

\* LayerBaseClient::getSurface: whether LOG_ALWAYS_FATAL_IF aborts, else the
\* members it leaves; handle is what createSurface() returns
getSurface(has, handle) ==
    IF has
    THEN [abort |-> TRUE, mHasSurface |-> has, mClientSurfaceBinder |-> 0]
    ELSE [abort |-> FALSE, mHasSurface |-> TRUE, mClientSurfaceBinder |-> handle]

----------------------------------------------------------------------------
(* Geometry derived from the committed snapshot s = drawingState()          *)

\* computeGeometry without the flip against the display height
computeGeometry_Unflipped(s, hwTransform, hw_h) ==
    LET tr == TransformCompose(hwTransform, s.transform)
        win == RectWH(s.active.w, s.active.h)
    IN  <<TransformPoint(tr, win.left, win.top),
          TransformPoint(tr, win.left, win.bottom),
          TransformPoint(tr, win.right, win.bottom),
          TransformPoint(tr, win.right, win.top)>>

\* LayerBase::computeGeometry(hw, mesh), mesh not null: mesh->mVertices for
\* a display with transform hwTransform and height hw_h
computeGeometry(s, hwTransform, hw_h) ==
    LET tr == TransformCompose(hwTransform, s.transform)
        full == RectWH(s.active.w, s.active.h)
        win == IF ~RectIsEmpty(s.active.crop)
               THEN RectIntersect(full, s.active.crop)
               ELSE full
        flip(v) == <<v[1], hw_h - v[2]>>
    IN  <<flip(TransformPoint(tr, win.left, win.top)),
          flip(TransformPoint(tr, win.left, win.bottom)),
          flip(TransformPoint(tr, win.right, win.bottom)),
          flip(TransformPoint(tr, win.right, win.top))>>

\* LayerBase::computeBounds
computeBounds(s) ==
    LET win == RectWH(s.active.w, s.active.h)
    IN  IF ~RectIsEmpty(s.active.crop) THEN RectIntersect(win, s.active.crop)
        ELSE win

\* LayerBase::getContentCrop
getContentCrop(s) == RectWH(s.active.w, s.active.h)

\* LayerBase::getContentTransform
getContentTransform == 0

\* Rect::transform(xform, width, height)
RectTransform(r, xform, width, height) ==
    LET r1 == IF BitAnd(xform, FLIP_H) # 0
              THEN Rect(width - r.right, r.top, width - r.left, r.bottom)
              ELSE r
        r2 == IF BitAnd(xform, FLIP_V) # 0
              THEN Rect(r1.left, height - r1.bottom, r1.right, height - r1.top)
              ELSE r1
    IN  IF BitAnd(xform, ROT_90) # 0
        THEN Rect(height - r2.bottom, r2.left, height - r2.top, r2.right)
        ELSE r2

\* the inset rounded towards zero instead of outwards
CeilScaled_Truncated(n, num, den) == (n * num) \div den

\* int(ceilf(n * (float(num) / float(den)))), den > 0, n >= 0: the exact
\* ceiling, which is what single precision yields for num and den below 7
CeilScaled(n, num, den) == -((-(n * num)) \div den)

\* the window crop without the final constraint to the window's bounds
ActiveCrop_Unclamped(s, viewport) ==
    LET there == RectIntersect(TransformRect(s.transform, s.active.crop), viewport)
    IN  TransformRect(TransformInverse(s.transform), there)

\* the window crop of computeCrop: active.crop clipped to the viewport in
\* layer-stack space, mapped back and constrained to the window
ActiveCrop(s, viewport) ==
    LET there == RectIntersect(TransformRect(s.transform, s.active.crop), viewport)
        back == TransformRect(TransformInverse(s.transform), there)
    IN  RectIntersect(back, RectWH(s.active.w, s.active.h))

\* computeCrop scaling by the window's own width and height whatever the
\* content transform
computeCrop_Unswapped(s, viewport, crop, contentTransform) ==
    LET activeCrop == ActiveCrop(s, viewport)
        rot == BitAnd(contentTransform, ROT_90) # 0
        invTransform == IF rot THEN BitXor(contentTransform, FLIP_V + FLIP_H)
                        ELSE contentTransform
        winWidth == s.active.w
        winHeight == s.active.h
        winCrop == RectTransform(activeCrop, invTransform, s.active.w, s.active.h)
        insetL == CeilScaled(winCrop.left, RectWidth(crop), winWidth)
        insetT == CeilScaled(winCrop.top, RectHeight(crop), winHeight)
        insetR == CeilScaled(winWidth - winCrop.right, RectWidth(crop), winWidth)
        insetB == CeilScaled(winHeight - winCrop.bottom, RectHeight(crop), winHeight)
    IN  IF ~RectIsEmpty(activeCrop)
        THEN Rect(crop.left + insetL, crop.top + insetT,
                  crop.right - insetR, crop.bottom - insetB)
        ELSE crop

\* LayerBase::computeCrop(hw), for the content crop and the content transform
\* that the virtual getContentCrop() and getContentTransform() return
computeCrop(s, viewport, crop, contentTransform) ==
    LET activeCrop == ActiveCrop(s, viewport)
        rot == BitAnd(contentTransform, ROT_90) # 0
        invTransform == IF rot THEN BitXor(contentTransform, FLIP_V + FLIP_H)
                        ELSE contentTransform
        winWidth == IF rot THEN s.active.h ELSE s.active.w
        winHeight == IF rot THEN s.active.w ELSE s.active.h
        winCrop == RectTransform(activeCrop, invTransform, s.active.w, s.active.h)
        insetL == CeilScaled(winCrop.left, RectWidth(crop), winWidth)
        insetT == CeilScaled(winCrop.top, RectHeight(crop), winHeight)
        insetR == CeilScaled(winWidth - winCrop.right, RectWidth(crop), winWidth)
        insetB == CeilScaled(winHeight - winCrop.bottom, RectHeight(crop), winHeight)
    IN  IF ~RectIsEmpty(activeCrop)
        THEN Rect(crop.left + insetL, crop.top + insetT,
                  crop.right - insetR, crop.bottom - insetB)
        ELSE crop

\* LayerBase::isVisible
isVisible(s) == BitAnd(s.flags, eLayerHidden) = 0 /\ s.alpha # 0

\* blending decided by the pending alpha
Blending_Pending(s, opaque, premultiplied) ==
    IF ~opaque \/ mCurrentState.alpha # OpaqueAlpha
    THEN (IF premultiplied THEN "PREMULT" ELSE "COVERAGE")
    ELSE "NONE"

\* the blending LayerBase::setGeometry sets ("NONE": setBlending not called)
Blending(s, opaque, premultiplied) ==
    IF ~opaque \/ s.alpha # OpaqueAlpha
    THEN (IF premultiplied THEN "PREMULT" ELSE "COVERAGE")
    ELSE "NONE"

\* setGeometry handing the orientation to the HWC layer unexamined
setGeometry_InvalidPassed(s, viewport, tr, opaque, premultiplied) ==
    [transform |-> GetOrientation(s.transform),
     blending |-> Blending(s, opaque, premultiplied),
     frame |-> TransformRect(tr,
                   RectIntersect(TransformRect(s.transform, computeBounds(s)),
                                 viewport)),
     crop |-> computeCrop(s, viewport, getContentCrop(s), getContentTransform)]

\* LayerBase::setGeometry(hw, layer): the HWC layer it leaves, for a display
\* with the given viewport and transform
setGeometry(s, viewport, tr, opaque, premultiplied) ==
    LET finalTransform == GetOrientation(s.transform)
    IN  [transform |-> IF BitAnd(finalTransform, ROT_INVALID) # 0 THEN 0
                       ELSE finalTransform,
         blending |-> Blending(s, opaque, premultiplied),
         frame |-> TransformRect(tr,
                       RectIntersect(TransformRect(s.transform, computeBounds(s)),
                                     viewport)),
         crop |-> computeCrop(s, viewport, getContentCrop(s), getContentTransform)]

----------------------------------------------------------------------------
(* The layer as a state machine: one action per call, each call atomic      *)

Bool(b) == IF b THEN 1 ELSE 0

Mutators == {"setPosition", "setLayer", "setSize", "setAlpha", "setMatrix",
             "setTransparentRegionHint", "setFlags", "setCrop", "setLayerStack"}

\* whether the pending state s holds the value a mutator call passes: what
\* the call compares its argument with, and what it leaves once it has written
HoldsArg(op, arg, s) ==
    CASE op = "setPosition" -> s.transform.tx = arg[1] /\ s.transform.ty = arg[2]
      [] op = "setLayer" -> s.z = arg[1]
      [] op = "setSize" -> s.requested.w = arg[1] /\ s.requested.h = arg[2]
      [] op = "setAlpha" -> s.alpha = arg[1]
      [] op = "setMatrix" ->
             /\ s.transform.M00 = arg[1] /\ s.transform.M10 = arg[2]
             /\ s.transform.M01 = arg[3] /\ s.transform.M11 = arg[4]
      [] op = "setTransparentRegionHint" -> s.transparentRegion = RegionOf(arg[1])
      [] op = "setFlags" -> BitAnd(s.flags, arg[2]) = BitAnd(arg[1], arg[2])
      [] op = "setCrop" -> s.requested.crop = RectOf(arg)
      [] op = "setLayerStack" -> s.layerStack = arg[1]

\* The record of a call: its name, its argument, the value it returned
\* (booleans as 1/0), and for a mutator: differs = 1 when the argument
\* differed from the pending value before the call, repeat = 1 when the call
\* before it was the same mutator with the same argument and differs = 1.
\* seq0 is the pending sequence before the call, or before the first of the
\* two calls when repeat = 1.
Call(op, arg, ret) ==
    LET differs == op \in Mutators /\ ~HoldsArg(op, arg, mCurrentState)
        repeat == /\ op \in Mutators
                  /\ lastCall.op = op
                  /\ lastCall.arg = arg
                  /\ lastCall.differs = 1
    IN  [op |-> op, arg |-> arg, ret |-> ret,
         differs |-> Bool(differs), repeat |-> Bool(repeat),
         seq0 |-> IF repeat THEN lastCall.seq0 ELSE mCurrentState.sequence]

NoHwcLayer == [transform |-> 0, blending |-> "NONE",
               frame |-> InvalidRect, crop |-> InvalidRect]

NoCrop == [viewport |-> InvalidRect, contentCrop |-> InvalidRect,
           contentTransform |-> 0, activeCrop |-> InvalidRect,
           result |-> InvalidRect]

\* the displays setGeometry is called for: a viewport and a display transform
Displays == {[viewport |-> RectWH(1, 1), transform |-> IdentityTransform]}

\* flags of initStates
InitFlags == {0, eHidden, eNonPremultiplied, eHidden + eNonPremultiplied}

Threads == {"client", "compositor"}

\* the LayerBaseClient objects of the model
MaxLayers == 4
LayerIds == 1 .. MaxLayers

\* no computeGeometry call has filled a mesh
NoMesh == [written |-> FALSE, vertices |-> <<>>, hw_h |-> 0]

\* no requestTransaction call yet since the last consuming get
NoRequests == [calls |-> 0, trues |-> 0, preset |-> FALSE]

InitRest ==
    /\ mesh = NoMesh
    /\ mQueuedFrames = 0
    /\ mActiveBuffer = 0
    /\ frames = [available |-> 0, latched |-> 0]
    /\ mHasSurface = [l \in LayerIds |-> FALSE]
    /\ mClientSurfaceBinder = [l \in LayerIds |-> 0]
    /\ surfaces = [created |-> [l \in LayerIds |-> 0], aborted |-> FALSE]
    /\ txn = [arg |-> 0, flags |-> 0]
    /\ forcePending = FALSE
    /\ requests = NoRequests

\* the constructor followed by initStates(w, h, flags)
Init ==
    \E size \in {<<1, 1>>}, flags \in {0} :
        /\ mCurrentState = InitialState(size[1], size[2], flags)
        /\ mDrawingState = InitialState(size[1], size[2], flags)
        /\ mTransactionFlags = 0
        /\ contentDirty = FALSE
        /\ mNeedsFiltering = FALSE
        /\ mPremultipliedAlpha = (BitAnd(flags, eNonPremultiplied) = 0)
        /\ hwcLayer = NoHwcLayer
        /\ cropResult = NoCrop
        /\ lastCall = [op |-> "initStates", arg |-> <<size[1], size[2], flags>>,
                       ret |-> 0, differs |-> 0, repeat |-> 0, seq0 |-> 0]
        /\ pc = [t \in Threads |-> "idle"]
        /\ pendingSignals = 0
        /\ observed = 0
        /\ InitRest

\* a mutator call with result r = [ret, state, request]
Mutate(op, arg, r) ==
    /\ r.state.sequence <= MaxSeq
    /\ mCurrentState' = r.state
    /\ mTransactionFlags' = IF r.request
                            THEN requestTransaction(mTransactionFlags).new
                            ELSE mTransactionFlags
    /\ lastCall' = Call(op, arg, Bool(r.ret))
    /\ hwcLayer' = NoHwcLayer
    /\ UNCHANGED <<mDrawingState, contentDirty, mNeedsFiltering,
                   mPremultipliedAlpha, cropResult,
                   pc, pendingSignals, observed, restVars>>

SetPosition ==
    \E p \in Positions :
        Mutate("setPosition", p, setPosition(mCurrentState, p[1], p[2]))

SetLayer ==
    \E z \in Layers : Mutate("setLayer", <<z>>, setLayer(mCurrentState, z))

SetSize ==
    \E size \in Sizes :
        Mutate("setSize", size, setSize(mCurrentState, size[1], size[2]))

SetAlpha ==
    \E alpha \in AlphaVals :
        Mutate("setAlpha", <<alpha>>, setAlpha(mCurrentState, alpha))

SetMatrix ==
    \E m \in Matrices : Mutate("setMatrix", m, setMatrix(mCurrentState, m))

SetTransparentRegionHint ==
    \E i \in RegionIds :
        Mutate("setTransparentRegionHint", <<i>>,
               setTransparentRegionHint(mCurrentState, RegionOf(i)))

SetFlags ==
    \E fm \in FlagArgs :
        Mutate("setFlags", fm, setFlags(mCurrentState, fm[1], fm[2]))

SetCrop ==
    \E crop \in Crops :
        Mutate("setCrop", crop, setCrop(mCurrentState, RectOf(crop)))

SetLayerStack ==
    \E layerStack \in Layers :
        Mutate("setLayerStack", <<layerStack>>,
               setLayerStack(mCurrentState, layerStack))

\* LayerBase::forceVisibilityTransaction
ForceVisibilityTransaction ==
    /\ mCurrentState.sequence < MaxSeq
    /\ mCurrentState' = [mCurrentState EXCEPT !.sequence = @ + 1]
    /\ mTransactionFlags' = requestTransaction(mTransactionFlags).new
    /\ lastCall' = Call("forceVisibilityTransaction", <<>>, 0)
    /\ hwcLayer' = NoHwcLayer
    /\ UNCHANGED <<mDrawingState, contentDirty, mNeedsFiltering,
                   mPremultipliedAlpha, cropResult,
                   pc, pendingSignals, observed, restVars>>

RequestTransaction ==
    LET r == requestTransaction(mTransactionFlags)
    IN  /\ mTransactionFlags' = r.new
        /\ lastCall' = Call("requestTransaction", <<>>, Bool(r.ret))
        /\ hwcLayer' = NoHwcLayer
        /\ UNCHANGED <<mCurrentState, mDrawingState, contentDirty,
                       mNeedsFiltering, mPremultipliedAlpha,
                       cropResult, pc, pendingSignals, observed, restVars>>

SetTransactionFlags ==
    \E flags \in {eTransactionNeeded} :
        LET r == setTransactionFlags(mTransactionFlags, flags)
        IN  /\ mTransactionFlags' = r.new
            /\ lastCall' = Call("setTransactionFlags", <<flags>>, r.old)
            /\ hwcLayer' = NoHwcLayer
            /\ UNCHANGED <<mCurrentState, mDrawingState, contentDirty,
                           mNeedsFiltering, mPremultipliedAlpha,
                           cropResult, pc, pendingSignals, observed, restVars>>

GetTransactionFlags ==
    \E flags \in {eTransactionNeeded} :
        LET r == getTransactionFlags(mTransactionFlags, flags)
        IN  /\ mTransactionFlags' = r.new
            /\ lastCall' = Call("getTransactionFlags", <<flags>>, r.ret)
            /\ hwcLayer' = NoHwcLayer
            /\ UNCHANGED <<mCurrentState, mDrawingState, contentDirty,
                           mNeedsFiltering, mPremultipliedAlpha,
                           cropResult, pc, pendingSignals, observed, restVars>>

DoTransaction ==
    \E flags \in TransactionInputs :
        LET r == doTransaction(mCurrentState, mDrawingState, flags,
                               contentDirty, mNeedsFiltering)
        IN  /\ mCurrentState' = r.current
            /\ mDrawingState' = r.drawing
            /\ contentDirty' = r.contentDirty
            /\ mNeedsFiltering' = r.mNeedsFiltering
            /\ lastCall' = Call("doTransaction", <<flags>>, r.ret)
            /\ hwcLayer' = NoHwcLayer
            /\ UNCHANGED <<mTransactionFlags, mPremultipliedAlpha,
                           cropResult, pc, pendingSignals, observed, restVars>>

SetGeometry ==
    \E hw \in Displays, opaque \in BOOLEAN :
        /\ hwcLayer' = setGeometry(mDrawingState, hw.viewport, hw.transform,
                                   opaque, mPremultipliedAlpha)
        /\ lastCall' = Call("setGeometry", <<Bool(opaque), hw.viewport.right>>,
                            0)
        /\ UNCHANGED <<mCurrentState, mDrawingState, mTransactionFlags,
                       contentDirty, mNeedsFiltering, mPremultipliedAlpha,
                       cropResult, pc, pendingSignals, observed, restVars>>

Next ==
    \/ SetPosition
    \/ SetLayer
    \/ SetSize
    \/ SetAlpha
    \/ SetMatrix
    \/ SetTransparentRegionHint
    \/ SetFlags
    \/ SetCrop
    \/ SetLayerStack
    \/ ForceVisibilityTransaction
    \/ RequestTransaction
    \/ SetTransactionFlags
    \/ GetTransactionFlags
    \/ DoTransaction
    \/ SetGeometry

Spec == Init /\ [][Next]_vars

----------------------------------------------------------------------------
(* Claims about the mutators *)

Comparing == {"setPosition", "setLayer", "setAlpha", "setFlags", "setCrop",
              "setLayerStack"}
NotComparing == {"setMatrix", "setTransparentRegionHint"}

TransactionNeeded(word) == BitAnd(word, eTransactionNeeded) # 0

NoEffect == UNCHANGED <<mCurrentState, mDrawingState, mTransactionFlags>>

----------------------------------------------------------------------------
(* Claims about doTransaction *)

HasVisibleRegion(flags) == BitAnd(flags, eVisibleRegion) # 0
KeepsGeometry(flags) == BitAnd(flags, eDontUpdateGeometryState) # 0

\* a call that may change the pending snapshot outside doTransaction
Mutating(op) == op \in Mutators \/ op = "forceVisibilityTransaction"

\* C4, as stated: a doTransaction that follows a doTransaction with no mutator
\* called in between, and whose input flags lack eVisibleRegion, returns
\* flags without eVisibleRegion, whatever flags the two calls were given.
C4_CommitIdempotentForAnyFlags ==
    [][(/\ lastCall.op = "doTransaction"
        /\ lastCall'.op = "doTransaction"
        /\ ~HasVisibleRegion(lastCall'.arg[1]))
           => ~HasVisibleRegion(lastCall'.ret)]_vars

\* C4, amended: after a doTransaction the two snapshots are equal and stay
\* equal until a mutator or forceVisibilityTransaction is called; the next
\* doTransaction, given flags without eVisibleRegion, then returns
\* eVisibleRegion exactly when it is called without eDontUpdateGeometryState
\* while pending requested differs from pending active, which a previous
\* doTransaction called without eDontUpdateGeometryState rules out.
C4_CommitIdempotence ==
    [][/\ lastCall'.op = "doTransaction" => mCurrentState' = mDrawingState'
       /\ (lastCall'.op = "doTransaction" /\ ~KeepsGeometry(lastCall'.arg[1]))
              => mCurrentState'.requested = mCurrentState'.active
       /\ (~Mutating(lastCall'.op) /\ lastCall'.op # "doTransaction")
              => UNCHANGED <<mCurrentState, mDrawingState>>
       /\ (/\ lastCall'.op = "doTransaction"
           /\ mCurrentState = mDrawingState
           /\ ~HasVisibleRegion(lastCall'.arg[1]))
              => (HasVisibleRegion(lastCall'.ret)
                    <=> (/\ ~KeepsGeometry(lastCall'.arg[1])
                         /\ mCurrentState.requested # mCurrentState.active))]_vars

\* C4 witness: a doTransaction(0) that found nothing to commit, after an
\* earlier one that committed a mutation
C4_Witness ==
    /\ lastCall.op = "doTransaction"
    /\ lastCall.arg = <<0>>
    /\ lastCall.ret = 0
    /\ contentDirty

\* C6: only doTransaction changes the committed snapshot, and right after
\* every doTransaction the committed snapshot equals the pending one in every
\* field.
C6_CommittedOnlyByCommit ==
    [][/\ mDrawingState' # mDrawingState => lastCall'.op = "doTransaction"
       /\ lastCall'.op = "doTransaction" =>
              \A f \in DOMAIN mCurrentState' :
                  mDrawingState'[f] = mCurrentState'[f]]_vars

\* C6 witness: a doTransaction has committed a new alpha and a new region
C6_Witness ==
    /\ lastCall.op = "doTransaction"
    /\ mDrawingState.alpha = 128
    /\ mDrawingState.transparentRegion # {}
    /\ mDrawingState.sequence = 2

\* C7: setSize changes the pending requested width and height and nothing
\* else of either snapshot; active changes only in doTransaction: called
\* without eDontUpdateGeometryState it makes the active geometry of both
\* snapshots the pending requested one, called with it it leaves active in
\* both snapshots and requested as they were.
C7_SizeIsDeferred ==
    [][/\ lastCall'.op = "setSize" =>
              /\ mCurrentState' =
                     [mCurrentState EXCEPT !.requested.w = lastCall'.arg[1],
                                           !.requested.h = lastCall'.arg[2]]
              /\ UNCHANGED mDrawingState
       /\ lastCall'.op # "doTransaction" =>
              /\ mCurrentState'.active = mCurrentState.active
              /\ mDrawingState'.active = mDrawingState.active
       /\ (lastCall'.op = "doTransaction" /\ ~KeepsGeometry(lastCall'.arg[1])) =>
              /\ mDrawingState'.active = mCurrentState.requested
              /\ mCurrentState'.active = mCurrentState.requested
       /\ (lastCall'.op = "doTransaction" /\ KeepsGeometry(lastCall'.arg[1])) =>
              /\ mCurrentState'.active = mCurrentState.active
              /\ mDrawingState'.active = mDrawingState.active
              /\ mCurrentState'.requested = mCurrentState.requested]_vars

\* C7 witness: after setSize, a doTransaction with eDontUpdateGeometryState
\* has left the old active size in both snapshots
C7_Witness ==
    /\ lastCall.op = "doTransaction"
    /\ lastCall.arg = <<eDontUpdateGeometryState>>
    /\ mCurrentState.requested.w = 2
    /\ mCurrentState.active.w = 1
    /\ mDrawingState.active.w = 1
    /\ mDrawingState.requested.w = 2

\* C8, as stated: doTransaction leaves the pending snapshot as it was, for
\* every input flag value.
C8_CommitOnlyReadsPending ==
    [][lastCall'.op = "doTransaction" => mCurrentState' = mCurrentState]_vars

\* C8, amended: doTransaction called with eDontUpdateGeometryState leaves the
\* pending snapshot as it was; called without it, it writes pending requested
\* into pending active and leaves every other pending field as it was.
C8_CommitWritesOnlyActive ==
    [][lastCall'.op = "doTransaction" =>
           /\ \A f \in DOMAIN mCurrentState \ {"active"} :
                  mCurrentState'[f] = mCurrentState[f]
           /\ mCurrentState'.active =
                  IF KeepsGeometry(lastCall'.arg[1]) THEN mCurrentState.active
                  ELSE mCurrentState.requested]_vars

\* C8 witness: a doTransaction(0) found a new active size and no new sequence
C8_Witness ==
    /\ lastCall.op = "doTransaction"
    /\ lastCall.arg = <<0>>
    /\ lastCall.ret = eVisibleRegion
    /\ ~contentDirty
    /\ mCurrentState.active.w = 2

----------------------------------------------------------------------------
(* Visibility and blending: the layer with every initStates flag, the      *)
(* mutators that the hardware descriptor depends on, and setGeometry        *)

\* LayerBase::isVisible() of this layer
IsVisible == isVisible(mDrawingState)

InitGeometry ==
    \E size \in Sizes, flags \in InitFlags :
        /\ mCurrentState = InitialState(size[1], size[2], flags)
        /\ mDrawingState = InitialState(size[1], size[2], flags)
        /\ mTransactionFlags = 0
        /\ contentDirty = FALSE
        /\ mNeedsFiltering = FALSE
        /\ mPremultipliedAlpha = (BitAnd(flags, eNonPremultiplied) = 0)
        /\ hwcLayer = NoHwcLayer
        /\ cropResult = NoCrop
        /\ lastCall = [op |-> "initStates", arg |-> <<size[1], size[2], flags>>,
                       ret |-> 0, differs |-> 0, repeat |-> 0, seq0 |-> 0]
        /\ pc = [t \in Threads |-> "idle"]
        /\ pendingSignals = 0
        /\ observed = 0
        /\ InitRest

NextGeometry ==
    \/ SetAlpha
    \/ SetFlags
    \/ SetMatrix
    \/ SetCrop
    \/ DoTransaction
    \/ SetGeometry

SpecGeometry == InitGeometry /\ [][NextGeometry]_vars

\* C9: no mutator changes what isVisible() returns, which is computed from
\* the committed flags and alpha; setAlpha(128) on a layer whose pending and
\* committed alpha are 255 returns true; and setGeometry leaves blending
\* enabled (PREMULT for a premultiplied layer, COVERAGE otherwise) exactly
\* when the layer is not opaque or the committed alpha is not 255.
C9_CommittedAlphaDecides ==
    [][/\ lastCall'.op \in Mutators =>
              /\ IsVisible' = IsVisible
              /\ IsVisible' = (/\ BitAnd(mDrawingState.flags, eLayerHidden) = 0
                               /\ mDrawingState.alpha # 0)
       /\ (/\ lastCall'.op = "setAlpha"
           /\ lastCall'.arg = <<128>>
           /\ mCurrentState.alpha = OpaqueAlpha) => lastCall'.ret = 1
       /\ lastCall'.op = "setGeometry" =>
              hwcLayer'.blending =
                  IF lastCall'.arg[1] = 0 \/ mDrawingState'.alpha # OpaqueAlpha
                  THEN (IF mPremultipliedAlpha' THEN "PREMULT" ELSE "COVERAGE")
                  ELSE "NONE"]_vars

\* C9 witness: setAlpha(128) is pending on an opaque layer whose committed
\* alpha is 255, and setGeometry has left blending disabled
C9_Witness ==
    /\ lastCall.op = "setGeometry"
    /\ lastCall.arg[1] = 1
    /\ mCurrentState.alpha = 128
    /\ mDrawingState.alpha = OpaqueAlpha
    /\ IsVisible
    /\ hwcLayer.blending = "NONE"

----------------------------------------------------------------------------
(* Two threads: a client inside a mutator (the write of the pending state, *)
(* then the atomic OR of requestTransaction) and the compositor (the       *)
(* atomic fetch-and-clear of getTransactionFlags, then doTransaction).     *)
(* pendingSignals counts the signals raised since the last get that        *)
(* returned non-zero; observed counts the gets that returned non-zero      *)
(* since the newest signal.                                                *)

MaxSignals == 2

ClientCalls ==
    {<<"setAlpha", <<a>>>> : a \in AlphaVals} \cup {<<"setLayer", <<z>>>> : z \in Layers}

ClientResult(call) ==
    IF call[1] = "setAlpha"
    THEN setAlpha(mCurrentState, call[2][1])
    ELSE setLayer(mCurrentState, call[2][1])

\* the mutator up to, and without, its requestTransaction()
ClientWrite ==
    \E call \in ClientCalls :
        LET r == ClientResult(call) IN
        /\ pc["client"] = "idle"
        /\ r.state.sequence <= MaxSeq
        /\ mCurrentState' = r.state
        /\ pc' = [pc EXCEPT !["client"] = IF r.request THEN "signal" ELSE "idle"]
        /\ lastCall' = Call(call[1], call[2], Bool(r.ret))
        /\ UNCHANGED <<mDrawingState, mTransactionFlags, contentDirty, mNeedsFiltering,
                       mPremultipliedAlpha, hwcLayer, cropResult, pendingSignals, observed, restVars>>

\* requestTransaction(): android_atomic_or, after which the mutator returns
ClientSignal ==
    /\ pc["client"] = "signal"
    /\ pendingSignals < MaxSignals
    /\ mTransactionFlags' = requestTransaction(mTransactionFlags).new
    /\ pendingSignals' = pendingSignals + 1
    /\ observed' = 0
    /\ pc' = [pc EXCEPT !["client"] = "idle"]
    /\ lastCall' = Call("requestTransaction", <<>>,
                        Bool(requestTransaction(mTransactionFlags).ret))
    /\ UNCHANGED <<mCurrentState, mDrawingState, contentDirty, mNeedsFiltering,
                   mPremultipliedAlpha, hwcLayer, cropResult, restVars>>

\* getTransactionFlags(eTransactionNeeded): android_atomic_and
CompositorGet ==
    LET r == getTransactionFlags(mTransactionFlags, eTransactionNeeded) IN
    /\ pc["compositor"] = "idle"
    /\ mTransactionFlags' = r.new
    /\ pc' = [pc EXCEPT !["compositor"] = IF r.ret # 0 THEN "commit" ELSE "idle"]
    /\ pendingSignals' = IF r.ret # 0 THEN 0 ELSE pendingSignals
    /\ observed' = IF r.ret # 0 THEN Min(observed + 1, 2) ELSE observed
    /\ lastCall' = Call("getTransactionFlags", <<eTransactionNeeded>>, r.ret)
    /\ UNCHANGED <<mCurrentState, mDrawingState, contentDirty, mNeedsFiltering,
                   mPremultipliedAlpha, hwcLayer, cropResult, restVars>>

\* the commit the compositor runs after a get that returned non-zero
CompositorCommit ==
    LET r == doTransaction(mCurrentState, mDrawingState, 0, contentDirty, mNeedsFiltering) IN
    /\ pc["compositor"] = "commit"
    /\ mCurrentState' = r.current
    /\ mDrawingState' = r.drawing
    /\ contentDirty' = r.contentDirty
    /\ mNeedsFiltering' = r.mNeedsFiltering
    /\ pc' = [pc EXCEPT !["compositor"] = "idle"]
    /\ lastCall' = Call("doTransaction", <<0>>, r.ret)
    /\ UNCHANGED <<mTransactionFlags, mPremultipliedAlpha, hwcLayer, cropResult,
                   pendingSignals, observed, restVars>>

NextConc ==
    \/ ClientWrite
    \/ ClientSignal
    \/ CompositorGet
    \/ CompositorCommit

SpecConc == Init /\ [][NextConc]_vars

\* C5: a signal is never lost (while a signal has not been returned by a
\* get, the eTransactionNeeded bit is set, so the next get returns non-zero
\* and starts a commit - also when the signal was raised during a commit),
\* and never seen twice (a get returns non-zero only when a new signal has
\* been raised since the previous non-zero get, and it clears the bit).
C5_SignalSeenExactlyOnce ==
    [][/\ pendingSignals' > 0 <=> TransactionNeeded(mTransactionFlags')
       /\ observed' <= 1
       /\ lastCall'.op = "getTransactionFlags" =>
              /\ (lastCall'.ret # 0) <=> (pendingSignals > 0)
              /\ ~TransactionNeeded(mTransactionFlags')
              /\ pendingSignals' = 0
              /\ lastCall'.ret # 0 => pc'["compositor"] = "commit"]_vars

\* C5 witness: a mutator has raised its signal while the commit of an
\* earlier signal was in flight, and the bit is set for the next get
C5_Witness ==
    /\ lastCall.op = "requestTransaction"
    /\ pc["compositor"] = "commit"
    /\ observed = 0
    /\ pendingSignals = 1
    /\ TransactionNeeded(mTransactionFlags)
    /\ mCurrentState.sequence > mDrawingState.sequence

----------------------------------------------------------------------------
(* computeCrop over committed states: a window of every size up to MaxWin, *)
(* a window crop, a layer transform, and for each call a display viewport, *)
(* the content crop and the content transform of the buffer.               *)

MaxWin == 3

WinSizes == (0 .. MaxWin) \X (0 .. 2)

\* active.crop: unset (invalid), or a rectangle on the window grid
WinCrops ==
    {InvalidRect} \cup
    {Rect(l, t, r, b) : l \in 0 .. MaxWin, r \in 1 .. MaxWin, t \in {0, 1}, b \in {1, 2}}

\* layer transforms {dsdx, dsdy, dtdx, dtdy, x, y}: identity, translations,
\* a 2x scale, a horizontal flip, a rotation by 90 degrees
LayerTransforms ==
    {Transform(1, 0, 0, 1, 0, 0), Transform(1, 0, 0, 1, 1, 0),
     Transform(1, 0, 0, 1, -1, 1), Transform(2, 0, 0, 2, 0, 0),
     Transform(2, 0, 0, 2, 1, 0), Transform(-1, 0, 0, 1, MaxWin, 0),
     Transform(0, -1, 1, 0, 2, 0)}

Viewports == {Rect(-8, -8, 8, 8), RectWH(2, 2), Rect(1, 0, 3, 2)}

\* the rectangles a buffer's getContentCrop() returns, besides the window's
ContentCrops == {RectWH(1, 1), Rect(1, 1, 3, 2), RectWH(6, 2)}

ContentTransforms == {0, FLIP_H, ROT_90, ROT_90 + FLIP_V}

CommittedStates ==
    {[InitialState(size[1], size[2], 0) EXCEPT
          !.active = Geometry(size[1], size[2], crop),
          !.requested = Geometry(size[1], size[2], crop),
          !.transform = tr] :
        size \in WinSizes, crop \in WinCrops, tr \in LayerTransforms}

InitCrop ==
    \E s \in CommittedStates :
        /\ mCurrentState = s
        /\ mDrawingState = s
        /\ mTransactionFlags = 0
        /\ contentDirty = FALSE
        /\ mNeedsFiltering = FALSE
        /\ mPremultipliedAlpha = TRUE
        /\ hwcLayer = NoHwcLayer
        /\ cropResult = NoCrop
        /\ lastCall = [op |-> "initStates", arg |-> <<s.active.w, s.active.h, 0>>,
                       ret |-> 0, differs |-> 0, repeat |-> 0, seq0 |-> 0]
        /\ pc = [t \in Threads |-> "idle"]
        /\ pendingSignals = 0
        /\ observed = 0
        /\ InitRest

\* computeCrop(hw) of a layer whose content crop and content transform are
\* those of its buffer (Layer) or the defaults (LayerBase).  The function is
\* const: it is called once for each committed state.
ComputeCrop ==
    \E viewport \in Viewports,
       crop \in ContentCrops \cup {getContentCrop(mDrawingState)},
       contentTransform \in ContentTransforms :
        /\ cropResult = NoCrop
        /\ cropResult' = [viewport |-> viewport, contentCrop |-> crop,
                          contentTransform |-> contentTransform,
                          activeCrop |-> ActiveCrop(mDrawingState, viewport),
                          result |-> computeCrop(mDrawingState, viewport, crop,
                                                 contentTransform)]
        /\ lastCall' = Call("computeCrop", <<contentTransform>>, 0)
        /\ UNCHANGED <<mCurrentState, mDrawingState, mTransactionFlags, contentDirty,
                       mNeedsFiltering, mPremultipliedAlpha, hwcLayer, pc,
                       pendingSignals, observed, restVars>>

NextCrop == ComputeCrop

SpecCrop == InitCrop /\ [][NextCrop]_vars

\* C10: the rectangle computeCrop returns lies inside the content crop and
\* is not inverted: crop.left <= result.left <= result.right <= crop.right
\* and crop.top <= result.top <= result.bottom <= crop.bottom.
C10_ResultInsideContentCrop ==
    lastCall.op = "computeCrop" =>
        LET crop == cropResult.contentCrop
            result == cropResult.result
        IN  /\ crop.left <= result.left
            /\ result.left <= result.right
            /\ result.right <= crop.right
            /\ crop.top <= result.top
            /\ result.top <= result.bottom
            /\ result.bottom <= crop.bottom

\* C10 failing input: a 3x1 window with the identity transform and
\* active.crop (1,0,2,1), inside the viewport, whose content is a 1x1 buffer:
\* both horizontal insets are ceil(1/3) = 1 and the result is (1,0,0,1)
C10_FailingInput ==
    /\ lastCall.op = "computeCrop"
    /\ mDrawingState.transform = IdentityTransform
    /\ mDrawingState.active = Geometry(3, 1, Rect(1, 0, 2, 1))
    /\ cropResult.viewport = Rect(-8, -8, 8, 8)
    /\ cropResult.contentCrop = RectWH(1, 1)
    /\ cropResult.contentTransform = 0
    /\ cropResult.activeCrop = Rect(1, 0, 2, 1)
    /\ cropResult.result = Rect(1, 0, 0, 1)

----------------------------------------------------------------------------
(* Claims about computeCrop, under SpecCrop *)

\* the committed window (0, 0, active.w, active.h)
Window == RectWH(mDrawingState.active.w, mDrawingState.active.h)

\* computeCrop has run on a layer with the identity transform whose
\* active.crop is the whole, non-empty window
FullWindowCrop ==
    /\ lastCall.op = "computeCrop"
    /\ mDrawingState.transform = IdentityTransform
    /\ mDrawingState.active.crop = Window
    /\ ~RectIsEmpty(Window)

\* C11, as stated: with the identity layer transform and active.crop equal to
\* the full active rectangle, computeCrop returns the content crop
\* unmodified for every display viewport.
C11_IdentityForEveryViewport ==
    (/\ lastCall.op = "computeCrop"
     /\ mDrawingState.transform = IdentityTransform
     /\ mDrawingState.active.crop = Window)
        => cropResult.result = cropResult.contentCrop

\* C11, amended: with the identity layer transform and active.crop equal to
\* the full, non-empty window, computeCrop returns the content crop
\* unmodified exactly when the viewport contains the window or does not
\* intersect it; a viewport that cuts the window yields a non-zero inset.
\* With an empty window the content crop is returned unmodified.
C11_CropIdentity ==
    /\ FullWindowCrop =>
           ((cropResult.result = cropResult.contentCrop)
                <=> (\/ RectIntersect(Window, cropResult.viewport) = Window
                     \/ RectIsEmpty(RectIntersect(Window, cropResult.viewport))))
    /\ (/\ lastCall.op = "computeCrop"
        /\ mDrawingState.transform = IdentityTransform
        /\ mDrawingState.active.crop = Window
        /\ RectIsEmpty(Window)) => cropResult.result = cropResult.contentCrop

\* C11 witness: a 3x1 window inside the viewport, its content the buffer
\* rectangle (1,1,3,2), returned as it is after the scaling block has run
C11_Witness ==
    /\ FullWindowCrop
    /\ Window = RectWH(3, 1)
    /\ cropResult.activeCrop = Window
    /\ cropResult.contentCrop = Rect(1, 1, 3, 2)
    /\ cropResult.result = Rect(1, 1, 3, 2)

----------------------------------------------------------------------------
(* computeGeometry over the committed states of SpecCrop, for displays     *)
(* with a transform and a height                                           *)

\* hw->getTransform(): identity, a translation, a rotation by 90 degrees
HwTransforms ==
    {IdentityTransform, Transform(1, 0, 0, 1, 1, 1), Transform(0, -1, 1, 0, 2, 0)}

\* hw->getHeight()
HwHeights == {1, 2, 4}

\* computeGeometry(hw, mesh); with a null mesh nothing is written.  The
\* function is const: it is called once for each committed state.
ComputeGeometry ==
    \E hwTransform \in HwTransforms, hw_h \in HwHeights, hasMesh \in BOOLEAN :
        /\ lastCall.op # "computeGeometry"
        /\ mesh' = IF hasMesh
                   THEN [written |-> TRUE,
                         vertices |-> computeGeometry(mDrawingState, hwTransform, hw_h),
                         hw_h |-> hw_h]
                   ELSE mesh
        /\ lastCall' = Call("computeGeometry",
                            <<hw_h, Bool(hwTransform = IdentityTransform)>>,
                            Bool(hasMesh))
        /\ UNCHANGED <<mCurrentState, mDrawingState, mTransactionFlags, contentDirty,
                       mNeedsFiltering, mPremultipliedAlpha, hwcLayer, cropResult,
                       pc, pendingSignals, observed,
                       mQueuedFrames, mActiveBuffer, frames,
          mHasSurface, mClientSurfaceBinder, surfaces, forceVars, requests>>

NextMesh == ComputeGeometry

SpecMesh == InitCrop /\ [][NextMesh]_vars

\* computeGeometry has filled a mesh for a layer with no effective crop and
\* the identity layer transform, on a display with the identity transform
PlainGeometry ==
    /\ lastCall.op = "computeGeometry"
    /\ lastCall.ret = 1
    /\ lastCall.arg[2] = 1
    /\ mDrawingState.transform = IdentityTransform
    /\ RectIsEmpty(mDrawingState.active.crop)

\* C12, as stated: for a layer with committed active size (w,h), no
\* effective crop, the identity layer transform and the identity display
\* transform, the mesh vertices are (0,h), (0,0), (w,0), (w,h) in that order.
C12_FlippedAgainstLayerHeight ==
    PlainGeometry =>
        LET w == mDrawingState.active.w
            h == mDrawingState.active.h
        IN  mesh.vertices = <<<<0, h>>, <<0, 0>>, <<w, 0>>, <<w, h>>>>

\* C12, amended: the vertices are (0,H), (0,H-h), (w,H-h), (w,H) in that
\* order, H being the height of the display: each corner (x,y) of the bounds,
\* taken top-left, bottom-left, bottom-right, top-right, is emitted as
\* (x, H - y).  They are (0,h), (0,0), (w,0), (w,h) exactly when H = h.
C12_FlippedAgainstDisplayHeight ==
    PlainGeometry =>
        LET w == mDrawingState.active.w
            h == mDrawingState.active.h
            H == mesh.hw_h
        IN  /\ mesh.vertices = <<<<0, H>>, <<0, H - h>>, <<w, H - h>>, <<w, H>>>>
            /\ (mesh.vertices = <<<<0, h>>, <<0, 0>>, <<w, 0>>, <<w, h>>>>) <=> (H = h)

\* C12 witness: a 3x2 window on a display of height 4
C12_Witness ==
    /\ PlainGeometry
    /\ mDrawingState.active.w = 3
    /\ mDrawingState.active.h = 2
    /\ mesh.vertices = <<<<0, 4>>, <<0, 2>>, <<3, 2>>, <<3, 4>>>>

----------------------------------------------------------------------------
(* The producer (onFrameAvailable, one atomic step) against the compositor *)
(* inside latchBuffer: the test of the counter, its atomic decrement, the  *)
(* adoption of the newest frame.                                           *)

MaxFrames == 5

OnFrameAvailable ==
    /\ frames.available < MaxFrames
    /\ mQueuedFrames' = onFrameAvailable(mQueuedFrames)
    /\ frames' = [frames EXCEPT !.available = @ + 1]
    /\ lastCall' = Call("onFrameAvailable", <<>>, 0)
    /\ UNCHANGED <<mCurrentState, mDrawingState, mTransactionFlags, contentDirty,
                   mNeedsFiltering, mPremultipliedAlpha, hwcLayer, cropResult,
                   pc, pendingSignals, observed, mesh, mActiveBuffer,
                   mHasSurface, mClientSurfaceBinder, surfaces, forceVars, requests>>

\* latchBuffer up to its test of mQueuedFrames; with no frame queued it
\* returns the empty region
LatchTest ==
    LET r == latchBuffer(mQueuedFrames) IN
    /\ pc["compositor"] = "idle"
    /\ pc' = [pc EXCEPT !["compositor"] = IF r.found THEN "decrement" ELSE "idle"]
    /\ lastCall' = IF r.found THEN Call("latchBuffer:test", <<>>, 1)
                   ELSE Call("latchBuffer", <<>>, 0)
    /\ UNCHANGED <<mCurrentState, mDrawingState, mTransactionFlags, contentDirty,
                   mNeedsFiltering, mPremultipliedAlpha, hwcLayer, cropResult,
                   pendingSignals, observed, restVars>>

\* the atomic decrement
LatchDecrement ==
    LET r == latchBuffer(mQueuedFrames) IN
    /\ pc["compositor"] = "decrement"
    /\ mQueuedFrames' = r.mQueuedFrames
    /\ frames' = [frames EXCEPT !.latched = @ + 1]
    /\ pc' = [pc EXCEPT !["compositor"] = "adopt"]
    /\ lastCall' = Call("latchBuffer:decrement", <<>>, 1)
    /\ UNCHANGED <<mCurrentState, mDrawingState, mTransactionFlags, contentDirty,
                   mNeedsFiltering, mPremultipliedAlpha, hwcLayer, cropResult,
                   pendingSignals, observed, mesh, mActiveBuffer,
                   mHasSurface, mClientSurfaceBinder, surfaces, forceVars, requests>>

\* the adoption of the newest frame produced, and the return
LatchAdopt ==
    /\ pc["compositor"] = "adopt"
    /\ mActiveBuffer' = frames.available
    /\ pc' = [pc EXCEPT !["compositor"] = "idle"]
    /\ lastCall' = Call("latchBuffer", <<>>, 1)
    /\ UNCHANGED <<mCurrentState, mDrawingState, mTransactionFlags, contentDirty,
                   mNeedsFiltering, mPremultipliedAlpha, hwcLayer, cropResult,
                   pendingSignals, observed, mesh, mQueuedFrames, frames,
                   mHasSurface, mClientSurfaceBinder, surfaces, forceVars, requests>>

\* latchBuffer of a LayerBase that is no Layer
LatchBufferBase ==
    /\ pc["compositor"] = "idle"
    /\ lastCall' = Call("LayerBase::latchBuffer", <<>>, Cardinality(LayerBaseLatchBuffer))
    /\ UNCHANGED <<mCurrentState, mDrawingState, mTransactionFlags, contentDirty,
                   mNeedsFiltering, mPremultipliedAlpha, hwcLayer, cropResult,
                   pc, pendingSignals, observed, restVars>>

NextLatch ==
    \/ OnFrameAvailable
    \/ LatchTest
    \/ LatchDecrement
    \/ LatchAdopt
    \/ LatchBufferBase

SpecLatch == Init /\ [][NextLatch]_vars

\* C13: in every interleaving the counter equals the onFrameAvailable calls
\* minus the decrements of the latchBuffer calls that found it non-zero, and
\* is never negative; a latchBuffer that finds a frame decrements it by
\* exactly one and adopts the newest frame produced; a latchBuffer that finds
\* the counter zero returns the empty region and changes nothing.
C13_LatchCounting ==
    [][/\ mQueuedFrames' = frames'.available - frames'.latched
       /\ mQueuedFrames' >= 0
       /\ lastCall'.op = "latchBuffer:decrement" =>
              mQueuedFrames' = mQueuedFrames - 1 /\ mQueuedFrames > 0
       /\ (lastCall'.op = "latchBuffer" /\ lastCall'.ret = 1) =>
              /\ mActiveBuffer' = frames'.available
              /\ UNCHANGED mQueuedFrames
       /\ (lastCall'.op \in {"latchBuffer", "LayerBase::latchBuffer"}
               /\ lastCall'.ret = 0) =>
              /\ lastCall'.op = "latchBuffer" => mQueuedFrames = 0
              /\ UNCHANGED <<mQueuedFrames, mActiveBuffer, frames, mDrawingState,
                             mCurrentState>>]_vars

\* C13 witness: three frames were announced with no latch, and one
\* latchBuffer has left the counter at two and adopted the third frame
C13_Witness ==
    /\ lastCall.op = "latchBuffer"
    /\ lastCall.ret = 1
    /\ frames = [available |-> 3, latched |-> 1]
    /\ mQueuedFrames = 2
    /\ mActiveBuffer = 3

----------------------------------------------------------------------------
(* getSurface on each of the LayerBaseClient objects.  A fatal abort ends  *)
(* the process: no call follows it.                                        *)

GetSurface ==
    \E l \in LayerIds :
        LET r == getSurface(mHasSurface[l], l) IN
        /\ ~surfaces.aborted
        /\ IF r.abort
           THEN /\ surfaces' = [surfaces EXCEPT !.aborted = TRUE]
                /\ UNCHANGED <<mHasSurface, mClientSurfaceBinder>>
           ELSE /\ mHasSurface' = [mHasSurface EXCEPT ![l] = r.mHasSurface]
                /\ mClientSurfaceBinder' =
                       [mClientSurfaceBinder EXCEPT ![l] = r.mClientSurfaceBinder]
                /\ surfaces' = [surfaces EXCEPT !.created[l] = @ + 1]
        /\ lastCall' = Call("getSurface", <<l>>, IF r.abort THEN 0 ELSE l)
        /\ UNCHANGED <<mCurrentState, mDrawingState, mTransactionFlags, contentDirty,
                       mNeedsFiltering, mPremultipliedAlpha, hwcLayer, cropResult,
                       pc, pendingSignals, observed, mesh, mQueuedFrames,
                       mActiveBuffer, frames, forceVars, requests>>

\* LayerBaseClient::getSurfaceBinder
GetSurfaceBinder ==
    \E l \in LayerIds :
        /\ ~surfaces.aborted
        /\ lastCall' = Call("getSurfaceBinder", <<l>>, mClientSurfaceBinder[l])
        /\ UNCHANGED <<mCurrentState, mDrawingState, mTransactionFlags, contentDirty,
                       mNeedsFiltering, mPremultipliedAlpha, hwcLayer, cropResult,
                       pc, pendingSignals, observed, restVars>>

NextSurface ==
    \/ GetSurface
    \/ GetSurfaceBinder

SpecSurface == Init /\ [][NextSurface]_vars

\* C14: for each layer the first getSurface sets mHasSurface and returns a
\* surface, every later getSurface on that layer aborts without handing out
\* a surface; while the process has not aborted each layer has handed out
\* at most one surface, exactly when its mHasSurface is set; and mHasSurface
\* never returns to false.
C14_SurfaceHandedOutOnce ==
    [][/\ \A l \in LayerIds :
              /\ mHasSurface[l] => mHasSurface'[l]
              /\ surfaces'.created[l] <= 1
              /\ mHasSurface'[l] <=> surfaces'.created[l] = 1
       /\ lastCall'.op = "getSurface" =>
              LET l == lastCall'.arg[1] IN
              IF mHasSurface[l]
              THEN /\ surfaces'.aborted
                   /\ lastCall'.ret = 0
                   /\ UNCHANGED <<mHasSurface, mClientSurfaceBinder>>
                   /\ surfaces'.created = surfaces.created
              ELSE /\ ~surfaces'.aborted
                   /\ lastCall'.ret = l
                   /\ mHasSurface'[l]
                   /\ mClientSurfaceBinder'[l] = l
                   /\ surfaces'.created[l] = 1]_vars

\* C14 witness: a second getSurface on a layer has reached the fatal abort,
\* another layer having handed out its own surface
C14_Witness ==
    /\ surfaces.aborted
    /\ lastCall.op = "getSurface"
    /\ lastCall.arg = <<1>>
    /\ surfaces.created[1] = 1
    /\ surfaces.created[2] = 1
    /\ mHasSurface[1]

----------------------------------------------------------------------------
(* The orientation setGeometry hands to the hardware composer: setMatrix   *)
(* with flips, rotations, a scale and a skew                               *)

\* matrix22_t {dsdx, dsdy, dtdx, dtdy}: identity, a horizontal and a vertical
\* flip, rotations by 90, 180 and 270 degrees, a 2x scale, two skews
OrientMatrices ==
    {<<1, 0, 0, 1>>, <<-1, 0, 0, 1>>, <<1, 0, 0, -1>>, <<0, -1, 1, 0>>,
     <<-1, 0, 0, -1>>, <<0, 1, -1, 0>>, <<2, 0, 0, 2>>, <<1, 1, 0, 1>>,
     <<1, 1, -1, 1>>}

SetOrientation ==
    \E m \in OrientMatrices : Mutate("setMatrix", m, setMatrix(mCurrentState, m))

NextOrientation ==
    \/ SetOrientation
    \/ SetPosition
    \/ SetSize
    \/ DoTransaction
    \/ SetGeometry

SpecOrientation == Init /\ [][NextOrientation]_vars

\* the orientation component of the committed layer transform
Orientation == GetOrientation(mDrawingState.transform)

\* C15: setGeometry sets the HWC layer's transform to 0 when the orientation
\* of the committed layer transform has the ROT_INVALID bit, and to exactly
\* the orientation otherwise; in both cases it sets the frame (the bounds
\* through the layer transform, cut by the viewport, through the display
\* transform) and the crop (computeCrop).
C15_InvalidRotationIsNoTransform ==
    [][lastCall'.op = "setGeometry" =>
           \E hw \in Displays :
               /\ hwcLayer'.transform =
                      IF BitAnd(Orientation', ROT_INVALID) # 0 THEN 0
                      ELSE Orientation'
               /\ hwcLayer'.frame =
                      TransformRect(hw.transform,
                          RectIntersect(TransformRect(mDrawingState'.transform,
                                                      computeBounds(mDrawingState')),
                                        hw.viewport))
               /\ hwcLayer'.crop =
                      computeCrop(mDrawingState', hw.viewport,
                                  getContentCrop(mDrawingState'), getContentTransform)
               /\ UNCHANGED <<mCurrentState, mDrawingState>>]_vars

\* C15 witness: setGeometry on a committed skew: transform 0, frame set
C15_Witness ==
    /\ lastCall.op = "setGeometry"
    /\ BitAnd(Orientation, ROT_INVALID) # 0
    /\ hwcLayer.transform = 0
    /\ hwcLayer.frame = RectWH(1, 1)
    /\ hwcLayer.crop = RectWH(2, 1)

----------------------------------------------------------------------------
(* Claims about the value doTransaction returns, under Spec *)

\* the pending snapshot as doTransaction(flags) sees it after the fold of
\* requested into active
Folded(flags) ==
    IF KeepsGeometry(flags) THEN mCurrentState
    ELSE [mCurrentState EXCEPT !.active = mCurrentState.requested]

\* C16: doTransaction(flags) returns the input flags, with eVisibleRegion
\* added exactly when, after the fold, the pending active {w,h,crop} differs
\* from the committed active or the pending sequence differs from the
\* committed sequence; no input bit is cleared; contentDirty becomes true
\* exactly when the sequences differ and is otherwise left as it was, so that
\* a size-only change yields eVisibleRegion without setting contentDirty.
C16_ReturnedFlags ==
    [][lastCall'.op = "doTransaction" =>
           LET flags == lastCall'.arg[1]
               activeDiffers == Folded(flags).active # mDrawingState.active
               seqDiffers == mCurrentState.sequence # mDrawingState.sequence
           IN  /\ lastCall'.ret =
                      IF activeDiffers \/ seqDiffers
                      THEN BitOr(flags, eVisibleRegion) ELSE flags
               /\ BitAnd(lastCall'.ret, flags) = flags
               /\ contentDirty' = (seqDiffers \/ contentDirty)
               /\ (activeDiffers /\ ~seqDiffers) =>
                      /\ HasVisibleRegion(lastCall'.ret)
                      /\ UNCHANGED contentDirty]_vars

\* C16 witness: a doTransaction(0) after a setSize alone has returned
\* eVisibleRegion and left contentDirty false
C16_Witness ==
    /\ lastCall.op = "doTransaction"
    /\ lastCall.arg = <<0>>
    /\ lastCall.ret = eVisibleRegion
    /\ mDrawingState.sequence = 0
    /\ mDrawingState.active.w = 2
    /\ ~contentDirty


\* ---------------------------------------------------------------------
\* forceVisibilityTransaction on one thread, without the state lock, and
\* doTransaction on the compositor thread, step by step.

\* the flag arguments doTransaction is called with
TxnFlagArgs == {0, eDontUpdateGeometryState}

\* setSize, called with the state lock held: not inside a doTransaction
LockedSetSize ==
    /\ pc["compositor"] = "idle"
    /\ SetSize

\* android_atomic_inc(&mCurrentState.sequence)
ForceIncrement ==
    /\ pc["client"] = "idle"
    /\ mCurrentState.sequence < MaxSeq
    /\ mCurrentState' = [mCurrentState EXCEPT !.sequence = @ + 1]
    /\ forcePending' = TRUE
    /\ pc' = [pc EXCEPT !["client"] = "signal"]
    /\ UNCHANGED <<mDrawingState, mTransactionFlags, contentDirty,
                   mNeedsFiltering, mPremultipliedAlpha, hwcLayer, cropResult,
                   lastCall, pendingSignals, observed, mesh, mQueuedFrames,
                   mActiveBuffer, frames, mHasSurface, mClientSurfaceBinder,
                   surfaces, txn, requests>>

\* the requestTransaction that ends forceVisibilityTransaction
ForceSignal ==
    /\ pc["client"] = "signal"
    /\ mTransactionFlags' = requestTransaction(mTransactionFlags).new
    /\ pc' = [pc EXCEPT !["client"] = "idle"]
    /\ lastCall' = Call("forceVisibilityTransaction", <<>>, 0)
    /\ UNCHANGED <<mCurrentState, mDrawingState, contentDirty,
                   mNeedsFiltering, mPremultipliedAlpha, hwcLayer, cropResult,
                   pendingSignals, observed, mesh, mQueuedFrames,
                   mActiveBuffer, frames, mHasSurface, mClientSurfaceBinder,
                   surfaces, forceVars, requests>>

\* doTransaction up to the comparison of active: the fold of requested into
\* active and the first test
TxnFold ==
    \E flags \in TxnFlagArgs :
        LET temp == IF KeepsGeometry(flags) THEN mCurrentState
                    ELSE [mCurrentState EXCEPT !.active = mCurrentState.requested]
        IN  /\ pc["compositor"] = "commit"
            /\ mCurrentState' = temp
            /\ txn' = [arg |-> flags,
                       flags |-> IF mDrawingState.active # temp.active
                                 THEN BitOr(flags, eVisibleRegion) ELSE flags]
            /\ pc' = [pc EXCEPT !["compositor"] = "compare"]
            /\ UNCHANGED <<mDrawingState, mTransactionFlags, contentDirty,
                           mNeedsFiltering, mPremultipliedAlpha, hwcLayer,
                           cropResult, lastCall, pendingSignals, observed,
                           mesh, mQueuedFrames, mActiveBuffer, frames,
                           mHasSurface, mClientSurfaceBinder, surfaces,
                           forcePending, requests>>

\* doTransaction's comparison of the two sequence numbers
TxnCompare ==
    LET seqDiffers == mCurrentState.sequence # mDrawingState.sequence IN
    /\ pc["compositor"] = "compare"
    /\ txn' = [txn EXCEPT !.flags = IF seqDiffers
                                    THEN BitOr(@, eVisibleRegion) ELSE @]
    /\ contentDirty' = (seqDiffers \/ contentDirty)
    /\ mNeedsFiltering' =
          IF seqDiffers
          THEN \/ ~PreserveRects(mCurrentState.transform)
               \/ GetType(mCurrentState.transform) >= SCALE
          ELSE mNeedsFiltering
    /\ forcePending' = (forcePending /\ ~seqDiffers)
    /\ pc' = [pc EXCEPT !["compositor"] = "copy"]
    /\ UNCHANGED <<mCurrentState, mDrawingState, mTransactionFlags,
                   mPremultipliedAlpha, hwcLayer, cropResult, lastCall,
                   pendingSignals, observed, mesh, mQueuedFrames,
                   mActiveBuffer, frames, mHasSurface, mClientSurfaceBinder,
                   surfaces, requests>>

\* doTransaction's commitTransaction and return
TxnCommit ==
    /\ pc["compositor"] = "copy"
    /\ mDrawingState' = commitTransaction(mCurrentState)
    /\ lastCall' = Call("doTransaction", <<txn.arg>>, txn.flags)
    /\ pc' = [pc EXCEPT !["compositor"] = "idle"]
    /\ UNCHANGED <<mCurrentState, mTransactionFlags, contentDirty,
                   mNeedsFiltering, mPremultipliedAlpha, hwcLayer, cropResult,
                   pendingSignals, observed, mesh, mQueuedFrames,
                   mActiveBuffer, frames, mHasSurface, mClientSurfaceBinder,
                   surfaces, forceVars, requests>>

NextForce ==
    \/ LockedSetSize
    \/ ForceIncrement
    \/ ForceSignal
    \/ CompositorGet
    \/ TxnFold
    \/ TxnCompare
    \/ TxnCommit

SpecForce == Init /\ [][NextForce]_vars

\* C17: a forceVisibilityTransaction is never lost: as long as no
\* doTransaction has compared the sequences after its increment (and so
\* returned eVisibleRegion and set contentDirty for it), the pending sequence
\* still differs from the committed one, so that the next comparison sees it.
C17_ForceNeverLost ==
    forcePending => mCurrentState.sequence # mDrawingState.sequence

\* C17: the lost call: forceVisibilityTransaction has returned, the
\* doTransaction that overlapped it has returned its argument without
\* eVisibleRegion and without setting contentDirty, and the two sequences
\* are equal again
C17_FailingInput ==
    /\ forcePending
    /\ pc = [t \in Threads |-> "idle"]
    /\ lastCall.op = "doTransaction"
    /\ lastCall.arg = <<eDontUpdateGeometryState>>
    /\ ~HasVisibleRegion(lastCall.ret)
    /\ ~contentDirty
    /\ mTransactionFlags = eTransactionNeeded
    /\ mCurrentState.sequence = 1
    /\ mDrawingState.sequence = 1


\* ---------------------------------------------------------------------
\* The filtering decision.

\* the display's own filtering hint is ignored
needsFiltering_LayerOnly(filtering, hwNeedsFiltering) == filtering

\* LayerBase::needsFiltering(hw)
needsFiltering(filtering, hwNeedsFiltering) == filtering \/ hwNeedsFiltering

\* needsFiltering(hw) for a display with or without a filtering hint
NeedsFiltering ==
    \E hwNeedsFiltering \in BOOLEAN :
        /\ lastCall' = Call("needsFiltering", <<Bool(hwNeedsFiltering)>>,
                            Bool(needsFiltering(mNeedsFiltering, hwNeedsFiltering)))
        /\ UNCHANGED <<mCurrentState, mDrawingState, mTransactionFlags,
                       contentDirty, mNeedsFiltering, mPremultipliedAlpha,
                       hwcLayer, cropResult, pc, pendingSignals, observed,
                       restVars>>

NextFilter ==
    \/ SetOrientation
    \/ SetPosition
    \/ DoTransaction
    \/ NeedsFiltering

SpecFilter == Init /\ [][NextFilter]_vars

\* what line 228 computes for a transform
Scales(t) == ~PreserveRects(t) \/ GetType(t) >= SCALE

\* C18: a doTransaction that finds the pending sequence different from the
\* committed one leaves mNeedsFiltering equal to (the pending transform does
\* not preserve rectangles, or its type is SCALE or higher); one that finds
\* them equal leaves mNeedsFiltering as it was; needsFiltering(display) is
\* true exactly when mNeedsFiltering or the display's hint is.
C18_FilteringDecision ==
    [][/\ lastCall'.op = "doTransaction" =>
            IF mCurrentState.sequence # mDrawingState.sequence
            THEN mNeedsFiltering' = Scales(mCurrentState.transform)
            ELSE UNCHANGED mNeedsFiltering
       /\ lastCall'.op = "needsFiltering" =>
            (lastCall'.ret = 1) <=> (mNeedsFiltering \/ lastCall'.arg[1] = 1)
      ]_vars

\* C18: needsFiltering on a display without a hint returns true after a
\* doTransaction has committed the doubling matrix
C18_Witness ==
    /\ lastCall.op = "needsFiltering"
    /\ lastCall.arg = <<0>>
    /\ lastCall.ret = 1
    /\ mNeedsFiltering
    /\ mDrawingState.transform = TransformSetMatrix(IdentityTransform, 2, 0, 0, 2)
    /\ PreserveRects(mDrawingState.transform)


\* ---------------------------------------------------------------------
\* Degenerate window crops.

\* the window crop in layer-stack space, clipped by the viewport (lines
\* 306-307), before it is mapped back
Clipped(s, viewport) ==
    RectIntersect(TransformRect(s.transform, s.active.crop), viewport)

\* computeCrop has returned the content crop as it was
Unmodified == cropResult.result = cropResult.contentCrop

\* C19: computeCrop returns the content crop unmodified whenever the window
\* crop, mapped through the layer transform, intersected with the viewport,
\* mapped back and clamped to the window, is empty; and that covers the
\* initial invalid active.crop, a crop entirely outside the viewport, and a
\* window of zero width or height.
C19_DegenerateCropFallsBack ==
    (/\ cropResult # NoCrop
     /\ \/ RectIsEmpty(cropResult.activeCrop)
        \/ mDrawingState.active.crop = InvalidRect
        \/ RectIsEmpty(Clipped(mDrawingState, cropResult.viewport))
        \/ mDrawingState.active.w = 0
        \/ mDrawingState.active.h = 0) => Unmodified

\* C19: a 2x1 window moved to (-1,1) with active.crop (0,0,1,1), a viewport
\* (1,0,3,2) that the moved crop (-1,1,0,2) does not meet, and the window's
\* own rectangle as content crop: the result loses its left column
C19_FailingInput ==
    /\ cropResult # NoCrop
    /\ mDrawingState.active = Geometry(2, 1, Rect(0, 0, 1, 1))
    /\ mDrawingState.transform = Transform(1, 0, 0, 1, -1, 1)
    /\ cropResult.viewport = Rect(1, 0, 3, 2)
    /\ Clipped(mDrawingState, cropResult.viewport) = Rect(1, 1, 0, 2)
    /\ cropResult.activeCrop = Rect(1, 0, 2, 1)
    /\ cropResult.contentCrop = RectWH(2, 1)
    /\ cropResult.contentTransform = 0
    /\ cropResult.result = Rect(1, 0, 2, 1)


\* ---------------------------------------------------------------------
\* computeCrop for rotated layers and rotated buffers.

\* window sizes, the last one the 100x50 layer of the scenario
RotSizes == {<<2, 1>>, <<3, 2>>, <<100, 50>>}

\* the full window, the window without its first column, the window without
\* its last row
RotCrops(w, h) == {RectWH(w, h), Rect(1, 0, w, h), Rect(0, 0, w, h - 1)}

\* the identity, and the rotation by 90 degrees that maps a w x h window onto
\* (0,0,h,w)
RotTransforms(w, h) == {IdentityTransform, Transform(0, -1, 1, 0, h, 0)}

RotViewports == {RectWH(128, 128), RectWH(2, 2)}

\* content crops: the buffer has the window's size, or the window's size
\* turned by 90 degrees
RotContentCrops(w, h) == {RectWH(w, h), RectWH(h, w)}

RotStatesOf(w, h) ==
    {[InitialState(w, h, 0) EXCEPT
          !.active = Geometry(w, h, crop),
          !.requested = Geometry(w, h, crop),
          !.transform = tr] :
        crop \in RotCrops(w, h), tr \in RotTransforms(w, h)}

RotStates == UNION {RotStatesOf(size[1], size[2]) : size \in RotSizes}

InitRotation ==
    \E s \in RotStates :
        /\ mCurrentState = s
        /\ mDrawingState = s
        /\ mTransactionFlags = 0
        /\ contentDirty = FALSE
        /\ mNeedsFiltering = FALSE
        /\ mPremultipliedAlpha = TRUE
        /\ hwcLayer = NoHwcLayer
        /\ cropResult = NoCrop
        /\ lastCall = [op |-> "initStates", arg |-> <<s.active.w, s.active.h, 0>>,
                       ret |-> 0, differs |-> 0, repeat |-> 0, seq0 |-> 0]
        /\ pc = [t \in Threads |-> "idle"]
        /\ pendingSignals = 0
        /\ observed = 0
        /\ InitRest

\* computeCrop(hw) on a display with one of the two viewports, for a buffer of
\* the window's size or of the turned size
ComputeCropRotated ==
    \E viewport \in RotViewports,
       crop \in RotContentCrops(mDrawingState.active.w, mDrawingState.active.h),
       contentTransform \in ContentTransforms :
        /\ cropResult = NoCrop
        /\ cropResult' = [viewport |-> viewport, contentCrop |-> crop,
                          contentTransform |-> contentTransform,
                          activeCrop |-> ActiveCrop(mDrawingState, viewport),
                          result |-> computeCrop(mDrawingState, viewport, crop,
                                                 contentTransform)]
        /\ lastCall' = Call("computeCrop", <<contentTransform>>, 0)
        /\ UNCHANGED <<mCurrentState, mDrawingState, mTransactionFlags, contentDirty,
                       mNeedsFiltering, mPremultipliedAlpha, hwcLayer, pc,
                       pendingSignals, observed, restVars>>

NextRotation == ComputeCropRotated

SpecRotation == InitRotation /\ [][NextRotation]_vars

\* active.crop is the full window and its image under the layer transform
\* lies inside the viewport
Unclipped ==
    /\ cropResult # NoCrop
    /\ mDrawingState.active.crop = Window
    /\ RectIntersect(TransformRect(mDrawingState.transform, Window),
                     cropResult.viewport)
         = TransformRect(mDrawingState.transform, Window)

\* the buffer's transform has the ROT_90 bit
BufferRotated == BitAnd(cropResult.contentTransform, ROT_90) # 0

\* the ceiling of n * num / den, by counting
CeilOf(n, num, den) ==
    CHOOSE k \in 0 .. (n * num + 1) : k * den >= n * num /\ (k - 1) * den < n * num

\* C20: for an unclipped window crop computeCrop returns the content crop
\* with zero insets, whether the layer or the buffer is rotated by 90 degrees
\* or not; and with the buffer's ROT_90 bit set the insets are those of the
\* window crop mapped with both flip bits toggled, scaled by
\* content width / active.h horizontally and content height / active.w
\* vertically.
C20_RotationNoInsets ==
    /\ Unclipped => cropResult.result = cropResult.contentCrop
    /\ (/\ cropResult # NoCrop
        /\ BufferRotated
        /\ ~RectIsEmpty(cropResult.activeCrop)) =>
            LET s == mDrawingState
                crop == cropResult.contentCrop
                toggled == BitXor(cropResult.contentTransform, FLIP_V + FLIP_H)
                winCrop == RectTransform(cropResult.activeCrop, toggled,
                                         s.active.w, s.active.h)
            IN  /\ cropResult.result.left - crop.left
                     = CeilOf(winCrop.left, RectWidth(crop), s.active.h)
                /\ cropResult.result.top - crop.top
                     = CeilOf(winCrop.top, RectHeight(crop), s.active.w)
                /\ crop.right - cropResult.result.right
                     = CeilOf(s.active.h - winCrop.right, RectWidth(crop), s.active.h)
                /\ crop.bottom - cropResult.result.bottom
                     = CeilOf(s.active.w - winCrop.bottom, RectHeight(crop), s.active.w)

\* C20: the 100x50 layer rotated by 90 degrees, with its full window as crop
\* and inside the viewport, a rotated buffer and the content crop
\* (0,0,100,50): computeCrop has returned (0,0,100,50)
C20_Witness ==
    /\ Unclipped
    /\ BufferRotated
    /\ mDrawingState.active = Geometry(100, 50, RectWH(100, 50))
    /\ GetOrientation(mDrawingState.transform) = ROT_90
    /\ cropResult.contentCrop = RectWH(100, 50)
    /\ cropResult.result = RectWH(100, 50)


\* ---------------------------------------------------------------------
\* The two sequence numbers under mutators, forceVisibilityTransaction and
\* doTransaction.

NextSequence ==
    \/ SetPosition
    \/ SetLayer
    \/ SetSize
    \/ SetAlpha
    \/ SetMatrix
    \/ SetTransparentRegionHint
    \/ SetFlags
    \/ SetCrop
    \/ SetLayerStack
    \/ ForceVisibilityTransaction
    \/ DoTransaction

SpecSequence == Init /\ [][NextSequence]_vars

\* C21: the pending sequence never decreases, the committed sequence is never
\* above the pending one, and the two are equal right after initStates and
\* right after every doTransaction.
C21_SequenceOrder ==
    /\ mCurrentState.sequence = mDrawingState.sequence
    /\ [][/\ mCurrentState'.sequence >= mCurrentState.sequence
          /\ mDrawingState'.sequence <= mCurrentState'.sequence
          /\ lastCall'.op = "doTransaction" =>
                 mDrawingState'.sequence = mCurrentState'.sequence]_vars

\* C21: a doTransaction has just committed a pending sequence that a mutator
\* and forceVisibilityTransaction had raised to 2
C21_Witness ==
    /\ lastCall.op = "doTransaction"
    /\ mCurrentState.sequence = 2
    /\ mDrawingState.sequence = 2


\* ---------------------------------------------------------------------
\* The divisors of computeCrop's scaling block.

\* winWidth and winHeight as lines 317-325 leave them
WinWidth(s, contentTransform) ==
    IF BitAnd(contentTransform, ROT_90) # 0 THEN s.active.h ELSE s.active.w

WinHeight(s, contentTransform) ==
    IF BitAnd(contentTransform, ROT_90) # 0 THEN s.active.w ELSE s.active.h

\* computeCrop(hw), recording whether the scaling block was entered and the
\* two divisors of lines 332-333; a division by zero leaves no result
ComputeCropScaled ==
    \E viewport \in Viewports,
       crop \in ContentCrops \cup {getContentCrop(mDrawingState)},
       contentTransform \in ContentTransforms :
        LET activeCrop == ActiveCrop(mDrawingState, viewport)
            entered == ~RectIsEmpty(activeCrop)
            winWidth == WinWidth(mDrawingState, contentTransform)
            winHeight == WinHeight(mDrawingState, contentTransform)
        IN  /\ cropResult = NoCrop
            /\ cropResult' =
                  [viewport |-> viewport, contentCrop |-> crop,
                   contentTransform |-> contentTransform,
                   activeCrop |-> activeCrop,
                   entered |-> entered,
                   winWidth |-> winWidth, winHeight |-> winHeight,
                   result |-> IF entered /\ (winWidth = 0 \/ winHeight = 0)
                              THEN InvalidRect
                              ELSE computeCrop(mDrawingState, viewport, crop,
                                               contentTransform)]
            /\ lastCall' = Call("computeCrop", <<contentTransform>>, 0)
            /\ UNCHANGED <<mCurrentState, mDrawingState, mTransactionFlags,
                           contentDirty, mNeedsFiltering, mPremultipliedAlpha,
                           hwcLayer, pc, pendingSignals, observed, restVars>>

NextScaling == ComputeCropScaled

SpecScaling == InitCrop /\ [][NextScaling]_vars

\* C22: whenever computeCrop enters its scaling block the clamped window crop
\* is non-empty, active.w and active.h are positive, and so are both
\* divisors, for every content transform.
C22_DivisorsPositive ==
    (cropResult # NoCrop /\ cropResult.entered) =>
        /\ ~RectIsEmpty(cropResult.activeCrop)
        /\ mDrawingState.active.w > 0
        /\ mDrawingState.active.h > 0
        /\ cropResult.winWidth > 0
        /\ cropResult.winHeight > 0

\* C22: the scaling block entered for a rotated buffer, the divisors being
\* the swapped sizes of a 3x1 window
C22_Witness ==
    /\ cropResult # NoCrop
    /\ cropResult.entered
    /\ BitAnd(cropResult.contentTransform, ROT_90) # 0
    /\ mDrawingState.active.w = 3
    /\ mDrawingState.active.h = 1
    /\ cropResult.winWidth = 1
    /\ cropResult.winHeight = 3


\* ---------------------------------------------------------------------
\* setFlags bit by bit.

\* the number of flag bits that the arguments of setFlags range over
MaxFlagBits == 2

FlagWords == 0 .. (2 ^ MaxFlagBits - 1)

\* bit i of a word
Bit(word, i) == (word \div (2 ^ i)) % 2

\* setFlags(flags, mask) for every flags and mask over the low bits
SetFlagsMasked ==
    \E flags \in FlagWords, mask \in FlagWords :
        Mutate("setFlags", <<flags, mask>>, setFlags(mCurrentState, flags, mask))

NextFlags ==
    \/ SetFlagsMasked
    \/ GetTransactionFlags
    \/ DoTransaction

SpecFlags == Init /\ [][NextFlags]_vars

\* C23: setFlags(flags, mask) leaves every pending flag bit outside mask as
\* it was and gives every bit inside mask the value of that bit of flags; it
\* returns true, advances sequence by one and sets eTransactionNeeded exactly
\* when the resulting word differs from the previous one, and otherwise
\* changes neither sequence nor the transaction flags.
C23_MaskedFlags ==
    [][lastCall'.op = "setFlags" =>
          LET flags == lastCall'.arg[1]
              mask == lastCall'.arg[2]
              old == mCurrentState.flags
              new == mCurrentState'.flags
          IN  /\ \A i \in 0 .. (MaxFlagBits - 1) :
                     Bit(new, i) = IF Bit(mask, i) = 1 THEN Bit(flags, i)
                                   ELSE Bit(old, i)
              /\ new \in FlagWords
              /\ (lastCall'.ret = 1) <=> (new # old)
              /\ IF new # old
                 THEN /\ mCurrentState'.sequence = mCurrentState.sequence + 1
                      /\ BitAnd(mTransactionFlags', eTransactionNeeded) # 0
                 ELSE UNCHANGED <<mCurrentState, mTransactionFlags>>
      ]_vars

\* C23: setFlags(1, 1) on pending flags 2 has returned true and left 3: bit 1,
\* outside the mask, kept its value
C23_Witness ==
    /\ lastCall.op = "setFlags"
    /\ lastCall.arg = <<1, 1>>
    /\ lastCall.ret = 1
    /\ mCurrentState.flags = 3
    /\ mDrawingState.flags = 2


\* ---------------------------------------------------------------------
\* requestTransaction, setTransactionFlags and getTransactionFlags on the
\* transaction-flag word.  Each is one atomic operation on the word, so calls
\* from several threads are the same calls in some order.

\* requestTransaction calls counted between two consuming gets
MaxRequests == 5

\* the flag arguments: eTransactionNeeded, another bit, both
TransactionWords == 1 .. 3

\* requestTransaction(), counted
RequestCall ==
    LET r == requestTransaction(mTransactionFlags) IN
    /\ requests.calls < MaxRequests
    /\ mTransactionFlags' = r.new
    /\ requests' = [requests EXCEPT !.calls = @ + 1, !.trues = @ + Bool(r.ret)]
    /\ lastCall' = Call("requestTransaction", <<>>, Bool(r.ret))
    /\ UNCHANGED <<mCurrentState, mDrawingState, contentDirty, mNeedsFiltering,
                   mPremultipliedAlpha, hwcLayer, cropResult, pc,
                   pendingSignals, observed, mesh, mQueuedFrames,
                   mActiveBuffer, frames, mHasSurface, mClientSurfaceBinder,
                   surfaces, forceVars>>

\* setTransactionFlags(flags) called directly
SetTransactionWord ==
    \E flags \in TransactionWords :
        LET r == setTransactionFlags(mTransactionFlags, flags) IN
        /\ mTransactionFlags' = r.new
        /\ requests' =
              IF /\ BitAnd(flags, eTransactionNeeded) # 0
                 /\ BitAnd(r.old, eTransactionNeeded) = 0
              THEN [requests EXCEPT !.preset = TRUE]
              ELSE requests
        /\ lastCall' = Call("setTransactionFlags", <<flags>>, r.old)
        /\ UNCHANGED <<mCurrentState, mDrawingState, contentDirty,
                       mNeedsFiltering, mPremultipliedAlpha, hwcLayer,
                       cropResult, pc, pendingSignals, observed, mesh,
                       mQueuedFrames, mActiveBuffer, frames, mHasSurface,
                       mClientSurfaceBinder, surfaces, forceVars>>

\* getTransactionFlags(flags); one that names eTransactionNeeded consumes it
GetTransactionWord ==
    \E flags \in TransactionWords :
        LET r == getTransactionFlags(mTransactionFlags, flags) IN
        /\ mTransactionFlags' = r.new
        /\ requests' = IF BitAnd(flags, eTransactionNeeded) # 0
                       THEN NoRequests ELSE requests
        /\ lastCall' = Call("getTransactionFlags", <<flags>>, r.ret)
        /\ UNCHANGED <<mCurrentState, mDrawingState, contentDirty,
                       mNeedsFiltering, mPremultipliedAlpha, hwcLayer,
                       cropResult, pc, pendingSignals, observed, mesh,
                       mQueuedFrames, mActiveBuffer, frames, mHasSurface,
                       mClientSurfaceBinder, surfaces, forceVars>>

NextRequest ==
    \/ RequestCall
    \/ SetTransactionWord
    \/ GetTransactionWord

SpecRequest == Init /\ [][NextRequest]_vars

\* what each call does to the word: requestTransaction returns true exactly
\* when eTransactionNeeded was clear before it, and sets it;
\* getTransactionFlags(f) returns the bits of f that were set, clears them and
\* leaves every other bit
WordSteps ==
    /\ lastCall'.op = "requestTransaction" =>
          /\ (lastCall'.ret = 1) <=> (BitAnd(mTransactionFlags, eTransactionNeeded) = 0)
          /\ mTransactionFlags' = BitOr(mTransactionFlags, eTransactionNeeded)
    /\ lastCall'.op = "getTransactionFlags" =>
          /\ \A i \in 0 .. 1 :
                Bit(mTransactionFlags', i) =
                    IF Bit(lastCall'.arg[1], i) = 1 THEN 0
                    ELSE Bit(mTransactionFlags, i)
          /\ \A i \in 0 .. 1 :
                Bit(lastCall'.ret, i) =
                    Bit(lastCall'.arg[1], i) * Bit(mTransactionFlags, i)

\* C24, as stated: requestTransaction returns true exactly when
\* eTransactionNeeded was clear; among the requestTransaction calls between
\* two consecutive consuming gets exactly one returns true; and
\* getTransactionFlags(f) clears only the bits of f.
C24_ExactlyOneTrue ==
    /\ [](requests.calls > 0 => requests.trues = 1)
    /\ [][WordSteps]_vars

\* C24, amended: among the requestTransaction calls between two consecutive
\* consuming gets never more than one returns true; exactly one does, the
\* first, unless a direct setTransactionFlags call naming eTransactionNeeded
\* set the bit before it, in which case none does.  The rest as stated.
C24_OneTrueUnlessPreset ==
    /\ [](/\ requests.trues <= 1
          /\ requests.calls > 0 =>
                requests.trues = IF requests.preset THEN 0 ELSE 1)
    /\ [][WordSteps]_vars

\* C24: the second requestTransaction since the last consuming get has
\* returned false, the first having returned true
C24_Witness ==
    /\ lastCall.op = "requestTransaction"
    /\ lastCall.ret = 0
    /\ requests = [calls |-> 2, trues |-> 1, preset |-> FALSE]
    /\ BitAnd(mTransactionFlags, eTransactionNeeded) # 0

====
